---- MODULE Spec2Model ----
(***************************************************************************)
(* Model of ShipedgeOrdersPage.startCreateOrderFlow and the helpers it     *)
(* calls (page-objects/shipedge-orders-page.ts).  One test at a time runs  *)
(* the flow on its own page; the web application is the environment and    *)
(* shows or hides its elements at any moment.  Every await of the flow is  *)
(* one step of the model.  Further specifications of the module follow the *)
(* retry loop of two tests at once (PairSpec), the lifecycle of a test     *)
(* with its failure capture and its fixtures (HookSpec, LoadSpec), the     *)
(* Allure helper (AllureSpec), the CSV helpers (CsvSpec), the orders suite  *)
(* from login to waitForOrderCreated (SuiteSpec) and the product, shipping *)
(* and save steps of the flow in detail (OrderSpec); while one             *)
(* specification runs, the variables of the others stay idle.              *)
(***************************************************************************)
EXTENDS Integers, FiniteSets, Sequences, TLC

\* for (let i = 0; i < 3; i++)
MaxAttempts == 3

\* throw new Error('Failed to open Address Book modal after 3 attempts.')
TimeoutMsg == "Failed to open Address Book modal after 3 attempts."

\* what Playwright throws when click() rejects / when waitFor() times out
ClickError == "ClickError"
TimeoutError == "TimeoutError"
NoError == "none"

\* waitFor({ state: 'visible', timeout: 2000 }), in ms
PerAttemptTimeout == 2000

\* waitForTimeout(500), in ms
BackoffDelay == 500

\* a wait that resolves does so at once or after some polling, in ms
ObservedDelays == {0, 1000}

VARIABLES
    pc,                  \* position of the test in startCreateOrderFlow
    i,                   \* loop variable of the retry loop
    isModalVisible,      \* local flag of the retry loop
    error,               \* error the flow rejected with, NoError while running
    failedAt,            \* the step that threw it
    addressBookModal,    \* page: [data-modal-type="address-book"] is visible
    processingIndicator, \* page: .dataTables_processing is visible
    tableRows,           \* page: a row of the address book table is visible
    addButtons,          \* page: a .btn-add-client-table button is visible
    clicks,              \* history: addressBookButton.click calls of this run
    checks,              \* history: resolved addressBookModal.waitFor calls of the loop
    backoffs,            \* history: waitForTimeout(500) calls of the loop
    clickThrew,          \* history: a click of the loop rejected
    preVisible,          \* history: the modal was visible when the loop was entered
    everVisible,         \* history: the modal was visible at some moment of the loop
    indicator,           \* history: what the probe of the Processing indicator saw
    outcomes,            \* history: the timeout failures reported so far
    elapsed,             \* history: ms the loop of this run has spent in its waits
    events               \* history: the clicks and observations of this run, in order

\* Two tests running the retry loop at the same time (PairSpec).
VARIABLES
    invocation,          \* the locals i and isModalVisible of each call of the flow
    run                  \* per test: position, its page's modal, clicks and checks so far

\* One test from fixture setup to fixture teardown (HookSpec).
VARIABLES
    phase,               \* position of the test in its lifecycle
    status,              \* testInfo.status
    expectedStatus,      \* testInfo.expectedStatus
    title,               \* testInfo.title, a sequence of characters
    logs,                \* the logs array of the saveAttachments fixture
    emitted,             \* history: console messages of the page since the listener was set
    attachments,         \* names in testInfo.attachments
    report,              \* attachments given to Allure, in order
    clock,               \* the wall clock
    timeTimestamp,       \* local of captureTestFailure
    dateTimestamp,       \* local of captureTestFailure
    testTitle,           \* local of captureTestFailure
    captureCalls,        \* history: calls of captureTestFailure for this test
    captureThrew,        \* history: a step of captureTestFailure rejected
    body,                \* history: pending, running, finished or notRun
    teardownThrew        \* history: a step of the saveAttachments teardown rejected

\* One test using the Allure helper (AllureSpec).
VARIABLES
    allurePc,            \* position of the test in its calls of AllureHelper
    options,             \* the argument of applyTestMetadata
    field,               \* index of the next field applyTestMetadata looks at
    calls,               \* history: the setters of allure called, with their arguments
    metadataError,       \* the error applyTestMetadata rejected with, NoError if none
    allureAttachments,   \* names attachScreenShot gave to allure.attachment
    consoleErrors,       \* number of console.error calls of attachScreenShot
    screenshotError,     \* the error attachScreenShot rejected with, NoError if none
    rejectedStep         \* history: the step of attachScreenShot that rejected

\* One test using the waitForPageLoad fixture (LoadSpec).
VARIABLES
    loadPc,              \* position of the fixture and of the test that uses it
    url,                 \* the page the browser is on or is navigating to
    loadStates,          \* the load states the page has reached
    target,              \* the page the test navigated to last
    returns              \* history: the page at each return of waitForPageLoad()

\* One call of a CSV helper (CsvSpec).
VARIABLES
    csvPc,               \* which helper is called and whether it has returned
    line,                \* the argument of parseCsvLine
    content,             \* the first argument of assertCsvColumns
    expectedColumns,     \* the second argument of assertCsvColumns
    values,              \* what parseCsvLine returned
    outcome              \* how assertCsvColumns ended

\* One test of the order suites from beforeEach to its last check (SuiteSpec).
VARIABLES
    suitePc,             \* position of the test in its hooks and body
    envEmail,            \* process.env.TEST_USER_EMAIL
    envPassword,         \* process.env.TEST_USER_PASSWORD
    currentUrl,          \* page.url()
    remindButton,        \* page: the Remind Me Later button is visible
    successMessage,      \* page: .alert-success is absent, hidden or visible
    hasMessage,          \* local of waitForOrderCreated
    suiteError,          \* the error the test failed with, NoError while running
    suiteFailedAt,       \* the step that threw it
    loginCalls,          \* history: calls of login()
    typed,               \* history: the fields typed into
    observedUrl,         \* history: the URL waitForURL resolved on
    urlAtReturn,         \* history: the URL when waitForSuccessfulLogin returned
    popupSteps,          \* history: what handleRemindMeLaterPopup did, in order
    createdSteps         \* history: what waitForOrderCreated did, in order

VARIABLES
    orderPc,        \* where the tail of startCreateOrderFlow stands
    productRows,    \* the rows of the product table: stock cell and Add button
    rowIndex,       \* the loop variable i of the product loop, counted from 1
    productAdded,   \* the local productAdded
    productClicks,  \* history: the product Add buttons clicked (0: first of the modal)
    rowsScanned,    \* history: how many rows had their cells read
    shipOptions,    \* the <option> elements of #select-ship
    shipMethod,     \* the value of #select-ship
    emPending,      \* the abandoned selectOption({ value: 'EM' }) is still waiting
    optionsRead,    \* history: the options the fallback looked at
    randomMethod,   \* the local randomMethod
    fallbackChose,  \* history: the fallback's selectOption has resolved
    methodAtOk,     \* history: the value of #select-ship when Ok was clicked
    okClicks,       \* history: clicks on the shipping Ok button
    saveClicks,     \* history: clicks on Save Order
    orderError,     \* the error the flow rejected with
    orderFailedAt   \* where it rejected

flowVars == <<pc, i, isModalVisible, error, failedAt, addressBookModal,
              processingIndicator, tableRows, addButtons, clicks, checks, backoffs,
              clickThrew, preVisible, everVisible, indicator, outcomes, elapsed,
              events>>

\* the variables of the other parts of the repository
pairVars == <<invocation, run>>

hookVars == <<phase, status, expectedStatus, title, logs, emitted, attachments, report,
              clock, timeTimestamp, dateTimestamp, testTitle, captureCalls,
              captureThrew, body, teardownThrew>>

allureVars == <<allurePc, options, field, calls, metadataError, allureAttachments,
                consoleErrors, screenshotError, rejectedStep>>

loadVars == <<loadPc, url, loadStates, target, returns>>

csvVars == <<csvPc, line, content, expectedColumns, values, outcome>>

suiteVars == <<suitePc, envEmail, envPassword, currentUrl, remindButton, successMessage, hasMessage, suiteError, suiteFailedAt, loginCalls, typed, observedUrl, urlAtReturn, popupSteps, createdSteps>>

orderVars == <<orderPc, productRows, rowIndex, productAdded, productClicks, rowsScanned, shipOptions, shipMethod, emPending, optionsRead, randomMethod, fallbackChose, methodAtOk, okClicks, saveClicks, orderError, orderFailedAt>>

notFlow == <<pairVars, hookVars, allureVars, loadVars, csvVars, suiteVars, orderVars>>

vars == <<flowVars, notFlow>>

page == <<addressBookModal, processingIndicator, tableRows, addButtons>>
loopLocals == <<i, isModalVisible>>
loopHistory == <<clicks, checks, backoffs, clickThrew, preVisible, everVisible, elapsed>>
failure == <<error, failedAt>>

LoopPcs == {"click", "wait", "backoff", "afterLoop"}

IndicatorOutcomes ==
    {"pending", "neverObserved", "probeError", "observedCleared", "observedStuck"}

----------------------------------------------------------------------------
\* A rejected await that no try/catch of the flow encloses: the flow rejects.
Throw(at, err) ==
    /\ pc' = "failed"
    /\ error' = err
    /\ failedAt' = at

\* An await that resolved: the flow goes on.
Goto(next) ==
    /\ pc' = next
    /\ UNCHANGED failure

FlowInit ==
    /\ pc = "addOrder"
    /\ i = 0
    /\ isModalVisible = FALSE
    /\ error = NoError
    /\ failedAt = "none"
    /\ addressBookModal \in BOOLEAN
    /\ processingIndicator \in BOOLEAN
    /\ tableRows \in BOOLEAN
    /\ addButtons \in BOOLEAN
    /\ clicks = 0
    /\ checks = 0
    /\ backoffs = 0
    /\ clickThrew = FALSE
    /\ preVisible = FALSE
    /\ everVisible = FALSE
    /\ indicator = "pending"
    /\ outcomes = {}
    /\ elapsed = 0
    /\ events = << >>

\* no test is running the flow
FlowIdle ==
    /\ pc = "idle"
    /\ i = 0
    /\ isModalVisible = FALSE
    /\ error = NoError
    /\ failedAt = "none"
    /\ addressBookModal = FALSE
    /\ processingIndicator = FALSE
    /\ tableRows = FALSE
    /\ addButtons = FALSE
    /\ clicks = 0
    /\ checks = 0
    /\ backoffs = 0
    /\ clickThrew = FALSE
    /\ preVisible = FALSE
    /\ everVisible = FALSE
    /\ indicator = "pending"
    /\ outcomes = {}
    /\ elapsed = 0
    /\ events = << >>

PairIdle ==
    /\ invocation = <<>>
    /\ run = <<>>

HookIdle ==
    /\ phase = "idle"
    /\ status = "none"
    /\ expectedStatus = "passed"
    /\ title = <<>>
    /\ logs = <<>>
    /\ emitted = <<>>
    /\ attachments = <<>>
    /\ report = <<>>
    /\ clock = 0
    /\ timeTimestamp = <<>>
    /\ dateTimestamp = <<>>
    /\ testTitle = <<>>
    /\ captureCalls = 0
    /\ captureThrew = FALSE
    /\ body = "pending"
    /\ teardownThrew = FALSE

AllureIdle ==
    /\ allurePc = "idle"
    /\ options = <<>>
    /\ field = 1
    /\ calls = <<>>
    /\ metadataError = NoError
    /\ allureAttachments = <<>>
    /\ consoleErrors = 0
    /\ screenshotError = NoError
    /\ rejectedStep = "none"

LoadIdle ==
    /\ loadPc = "idle"
    /\ url = "about:blank"
    /\ loadStates = {}
    /\ target = <<"none", "about:blank">>
    /\ returns = <<>>

CsvIdle ==
    /\ csvPc = "idle"
    /\ line = <<>>
    /\ content = <<>>
    /\ expectedColumns = <<>>
    /\ values = <<>>
    /\ outcome = [kind |-> "pending", message |-> <<>>]

SuiteIdle ==
    /\ suitePc = "idle"
    /\ envEmail = [type |-> "undefined", str |-> "", items |-> <<>>]
    /\ envPassword = [type |-> "undefined", str |-> "", items |-> <<>>]
    /\ currentUrl = [path |-> "about:blank", query |-> ""]
    /\ remindButton = FALSE
    /\ successMessage = "absent"
    /\ hasMessage = FALSE
    /\ suiteError = NoError
    /\ suiteFailedAt = "none"
    /\ loginCalls = 0
    /\ typed = <<>>
    /\ observedUrl = [path |-> "about:blank", query |-> ""]
    /\ urlAtReturn = [path |-> "about:blank", query |-> ""]
    /\ popupSteps = <<>>
    /\ createdSteps = <<>>

OrderIdle ==
    /\ orderPc = "idle"
    /\ productRows = <<>>
    /\ rowIndex = 0
    /\ productAdded = FALSE
    /\ productClicks = <<>>
    /\ rowsScanned = 0
    /\ shipOptions = {}
    /\ shipMethod = <<>>
    /\ emPending = FALSE
    /\ optionsRead = {}
    /\ randomMethod = <<>>
    /\ fallbackChose = FALSE
    /\ methodAtOk = <<>>
    /\ okClicks = 0
    /\ saveClicks = 0
    /\ orderError = NoError
    /\ orderFailedAt = "none"

Init ==
    /\ FlowInit
    /\ PairIdle
    /\ HookIdle
    /\ AllureIdle
    /\ LoadIdle
    /\ CsvIdle
    /\ SuiteIdle
    /\ OrderIdle

----------------------------------------------------------------------------
(* The page: the application shows and hides its elements on its own.      *)

ModalChanges ==
    /\ addressBookModal' = ~addressBookModal
    /\ everVisible' = (everVisible \/ (addressBookModal' /\ pc \in {"click", "wait", "backoff"}))
    /\ UNCHANGED <<notFlow, events, pc, loopLocals, failure, processingIndicator, tableRows, addButtons,
                   clicks, checks, backoffs, clickThrew, preVisible, indicator, outcomes, elapsed>>

ProcessingChanges ==
    /\ processingIndicator' = ~processingIndicator
    /\ UNCHANGED <<notFlow, events, pc, loopLocals, failure, addressBookModal, tableRows, addButtons,
                   loopHistory, indicator, outcomes>>

TableRowsChange ==
    /\ tableRows' = ~tableRows
    /\ UNCHANGED <<notFlow, events, pc, loopLocals, failure, addressBookModal, processingIndicator, addButtons,
                   loopHistory, indicator, outcomes>>

AddButtonsChange ==
    /\ addButtons' = ~addButtons
    /\ UNCHANGED <<notFlow, events, pc, loopLocals, failure, addressBookModal, processingIndicator, tableRows,
                   loopHistory, indicator, outcomes>>

----------------------------------------------------------------------------
(* startCreateOrderFlow, up to the retry loop.                             *)

\* the clicks and observations of lines 250-308, 310-377 and 379-390, in the
\* order of the code
ProductEvents == <<"addProductsClick", "productAddClick">>
ShippingEvents == <<"addShippingClick", "carrierSelected", "methodSelected", "okClick">>
SaveEvents == <<"saveEnabled", "saveClick">>

Happens(did) == events' = events \o did

\* await this.click(this.addOrderLink)
ClickAddOrder ==
    /\ pc = "addOrder"
    /\ Goto("loadState")
    /\ Happens(<<"addOrderClick">>)
    /\ UNCHANGED <<notFlow, loopLocals, page, loopHistory, indicator, outcomes>>

ClickAddOrderThrows ==
    /\ pc = "addOrder"
    /\ Throw("addOrder", ClickError)
    /\ UNCHANGED <<notFlow, events, loopLocals, page, loopHistory, indicator, outcomes>>

\* await this.page.waitForLoadState('networkidle')
WaitForLoadState ==
    /\ pc = "loadState"
    /\ Goto("popup")
    /\ UNCHANGED <<notFlow, events, loopLocals, page, loopHistory, indicator, outcomes>>

WaitForLoadStateThrows ==
    /\ pc = "loadState"
    /\ Throw("loadState", TimeoutError)
    /\ UNCHANGED <<notFlow, events, loopLocals, page, loopHistory, indicator, outcomes>>

\* await this.handleRemindMeLaterPopup(): its try/catch encloses every await
handleRemindMeLaterPopup ==
    /\ pc = "popup"
    /\ Goto("abButtonWait")
    /\ UNCHANGED <<notFlow, events, loopLocals, page, loopHistory, indicator, outcomes>>

\* slips of the loop bound: i < 2 and i <= 3
LoopCond_Short(n) == n < MaxAttempts - 1

LoopCond_Extra(n) == n <= MaxAttempts

\* i < 3
LoopCond(n) == n < MaxAttempts

\* a loop that checks the modal before its first click
EnterLoop_CheckFirst ==
    /\ pc = "abButtonWait"
    /\ isModalVisible' = addressBookModal
    /\ i' = 0
    /\ Goto(IF LoopCond(0) /\ ~addressBookModal THEN "click" ELSE "afterLoop")
    /\ preVisible' = addressBookModal
    /\ everVisible' = addressBookModal
    /\ elapsed' = 0
    /\ UNCHANGED <<notFlow, events, page, clicks, checks, backoffs, clickThrew, indicator, outcomes>>

\* await this.addressBookButton.waitFor({ state: 'visible', timeout: 10000 });
\* let isModalVisible = false; for (let i = 0; ...
EnterLoop ==
    /\ pc = "abButtonWait"
    /\ isModalVisible' = FALSE
    /\ i' = 0
    /\ Goto(IF LoopCond(0) THEN "click" ELSE "afterLoop")
    /\ preVisible' = addressBookModal
    /\ everVisible' = addressBookModal
    /\ elapsed' = 0
    /\ UNCHANGED <<notFlow, events, page, clicks, checks, backoffs, clickThrew, indicator, outcomes>>

WaitAddressBookButtonThrows ==
    /\ pc = "abButtonWait"
    /\ Throw("abButtonWait", TimeoutError)
    /\ UNCHANGED <<notFlow, events, loopLocals, page, loopHistory, indicator, outcomes>>

----------------------------------------------------------------------------
(* The retry loop.                                                         *)

\* await this.addressBookButton.click({ force: true })
ClickAddressBook ==
    /\ pc = "click"
    /\ clicks' = clicks + 1
    /\ Goto("wait")
    /\ UNCHANGED <<notFlow, events, loopLocals, page, checks, backoffs, clickThrew, preVisible,
                   everVisible, indicator, outcomes, elapsed>>

\* a click inside the try block: its rejection is caught and retried
ClickAddressBookThrows_Retried ==
    /\ pc = "click"
    /\ clicks' = clicks + 1
    /\ clickThrew' = TRUE
    /\ Goto("backoff")
    /\ UNCHANGED <<notFlow, events, loopLocals, page, checks, backoffs, preVisible,
                   everVisible, indicator, outcomes, elapsed>>

\* the click rejects: it is outside the try block, the flow rejects with it
ClickAddressBookThrows ==
    /\ pc = "click"
    /\ clicks' = clicks + 1
    /\ clickThrew' = TRUE
    /\ Throw("click", ClickError)
    /\ UNCHANGED <<notFlow, events, loopLocals, page, checks, backoffs, preVisible,
                   everVisible, indicator, outcomes, elapsed>>

\* a loop without the break: the flag is set and the loop goes on
WaitObserved_NoBreak ==
    /\ pc = "wait"
    /\ addressBookModal
    /\ checks' = checks + 1
    /\ isModalVisible' = TRUE
    /\ \E d \in ObservedDelays : elapsed' = elapsed + d
    /\ i' = i + 1
    /\ Goto(IF LoopCond(i + 1) THEN "click" ELSE "afterLoop")
    /\ UNCHANGED <<notFlow, events, page, clicks, backoffs, clickThrew, preVisible,
                   everVisible, indicator, outcomes>>

\* waitFor({ state: 'visible', timeout: 2000 }) resolves:
\* isModalVisible = true; break
WaitObserved ==
    /\ pc = "wait"
    /\ addressBookModal
    /\ checks' = checks + 1
    /\ isModalVisible' = TRUE
    /\ \E d \in ObservedDelays : elapsed' = elapsed + d
    /\ Goto("afterLoop")
    /\ Happens(<<"modalVisible">>)
    /\ UNCHANGED <<notFlow, i, page, clicks, backoffs, clickThrew, preVisible,
                   everVisible, indicator, outcomes>>

\* a wait without a timeout: it stays pending while the modal is hidden
WaitTimeout_NoTimeout ==
    /\ pc = "wait"
    /\ ~addressBookModal
    /\ UNCHANGED vars

\* waitFor rejects after 2 s: catch { console.log(...); waitForTimeout(500) }
WaitTimeout ==
    /\ pc = "wait"
    /\ ~addressBookModal
    /\ checks' = checks + 1
    /\ elapsed' = elapsed + PerAttemptTimeout
    /\ Goto("backoff")
    /\ UNCHANGED <<notFlow, events, loopLocals, page, clicks, backoffs, clickThrew, preVisible,
                   everVisible, indicator, outcomes>>

\* a backoff that is skipped once the last attempt has failed
Backoff_SkippedAfterLastAttempt ==
    /\ pc = "backoff"
    /\ backoffs' = backoffs + 1
    /\ elapsed' = elapsed + (IF LoopCond(i + 1) THEN BackoffDelay ELSE 0)
    /\ i' = i + 1
    /\ Goto(IF LoopCond(i + 1) THEN "click" ELSE "afterLoop")
    /\ UNCHANGED <<notFlow, events, isModalVisible, page, clicks, checks, clickThrew, preVisible,
                   everVisible, indicator, outcomes>>

\* await this.page.waitForTimeout(500) resolves; i++; i < 3
Backoff ==
    /\ pc = "backoff"
    /\ backoffs' = backoffs + 1
    /\ elapsed' = elapsed + BackoffDelay
    /\ i' = i + 1
    /\ Goto(IF LoopCond(i + 1) THEN "click" ELSE "afterLoop")
    /\ UNCHANGED <<notFlow, events, isModalVisible, page, clicks, checks, clickThrew, preVisible,
                   everVisible, indicator, outcomes>>

\* a loop whose exhaustion is not checked: the flow goes on without the modal
AfterLoopThrows_Silent ==
    /\ pc = "afterLoop"
    /\ ~isModalVisible
    /\ Goto("abModalWait")
    /\ UNCHANGED <<notFlow, events, loopLocals, page, loopHistory, indicator, outcomes>>

\* a failure whose message tells the two cases apart
AfterLoopThrows_Typed ==
    /\ pc = "afterLoop"
    /\ ~isModalVisible
    /\ Throw("afterLoop", IF everVisible THEN "Address Book modal opened and closed again."
                                          ELSE TimeoutMsg)
    /\ outcomes' = outcomes \cup
           {[error |-> error', flipped |-> everVisible, attempts |-> clicks]}
    /\ UNCHANGED <<notFlow, events, loopLocals, page, loopHistory, indicator>>

\* if (!isModalVisible) throw new Error('Failed to open ... after 3 attempts.')
AfterLoopThrows ==
    /\ pc = "afterLoop"
    /\ ~isModalVisible
    /\ Throw("afterLoop", TimeoutMsg)
    /\ outcomes' = outcomes \cup
           {[error |-> TimeoutMsg, flipped |-> everVisible, attempts |-> clicks]}
    /\ UNCHANGED <<notFlow, events, loopLocals, page, loopHistory, indicator>>

\* otherwise: await this.selectClientFromAddressBook()
AfterLoopContinues ==
    /\ pc = "afterLoop"
    /\ isModalVisible
    /\ Goto("abModalWait")
    /\ UNCHANGED <<notFlow, events, loopLocals, page, loopHistory, indicator, outcomes>>

----------------------------------------------------------------------------
(* waitForAddressBookToLoad(30000), called by selectClientFromAddressBook. *)

\* await this.addressBookModal.waitFor({ state: 'visible', timeout })
WaitModalVisible ==
    /\ pc = "abModalWait"
    /\ addressBookModal
    /\ Goto("abSettle")
    /\ Happens(<<"modalVisible">>)
    /\ UNCHANGED <<notFlow, loopLocals, page, loopHistory, indicator, outcomes>>

WaitModalVisibleThrows ==
    /\ pc = "abModalWait"
    /\ ~addressBookModal
    /\ Throw("abModalWait", TimeoutError)
    /\ UNCHANGED <<notFlow, events, loopLocals, page, loopHistory, indicator, outcomes>>

\* await this.page.waitForTimeout(500)
SettleModal ==
    /\ pc = "abSettle"
    /\ Goto("abProbe")
    /\ UNCHANGED <<notFlow, events, loopLocals, page, loopHistory, indicator, outcomes>>

\* if (await processing.isVisible({ timeout: 2000 })) is false: the if is skipped
ProbeNotVisible ==
    /\ pc = "abProbe"
    /\ ~processingIndicator
    /\ indicator' = "neverObserved"
    /\ Goto("abRows")
    /\ UNCHANGED <<notFlow, events, loopLocals, page, loopHistory, outcomes>>

\* a probe outside the try block: its rejection fails the wait
ProbeThrows_Propagates ==
    /\ pc = "abProbe"
    /\ Throw("abProbe", TimeoutError)
    /\ UNCHANGED <<notFlow, events, loopLocals, page, loopHistory, indicator, outcomes>>

\* processing.isVisible rejects: catch { } swallows it
ProbeThrows ==
    /\ pc = "abProbe"
    /\ indicator' = "probeError"
    /\ Goto("abRows")
    /\ UNCHANGED <<notFlow, events, loopLocals, page, loopHistory, outcomes>>

\* processing.isVisible is true: await processing.waitFor({ state: 'hidden', timeout })
ProbeVisible ==
    /\ pc = "abProbe"
    /\ processingIndicator
    /\ Goto("abProcessingHidden")
    /\ UNCHANGED <<notFlow, events, loopLocals, page, loopHistory, indicator, outcomes>>

\* processing.waitFor({ state: 'hidden' }) resolves
ProcessingHidden ==
    /\ pc = "abProcessingHidden"
    /\ ~processingIndicator
    /\ indicator' = "observedCleared"
    /\ Goto("abRows")
    /\ UNCHANGED <<notFlow, events, loopLocals, page, loopHistory, outcomes>>

\* a hidden-wait outside the try block: its timeout fails the wait
ProcessingStuck_Propagates ==
    /\ pc = "abProcessingHidden"
    /\ processingIndicator
    /\ indicator' = "observedStuck"
    /\ Throw("abProcessingHidden", TimeoutError)
    /\ UNCHANGED <<notFlow, events, loopLocals, page, loopHistory, outcomes>>

\* processing.waitFor({ state: 'hidden' }) times out: catch { } swallows it
ProcessingStuck ==
    /\ pc = "abProcessingHidden"
    /\ processingIndicator
    /\ indicator' = "observedStuck"
    /\ Goto("abRows")
    /\ UNCHANGED <<notFlow, events, loopLocals, page, loopHistory, outcomes>>

\* await ...locator('... table tbody tr').first().waitFor({ state: 'visible', timeout })
WaitTableRows ==
    /\ pc = "abRows"
    /\ tableRows
    /\ Goto("abAddButtons")
    /\ UNCHANGED <<notFlow, events, loopLocals, page, loopHistory, indicator, outcomes>>

WaitTableRowsThrows ==
    /\ pc = "abRows"
    /\ ~tableRows
    /\ Throw("abRows", TimeoutError)
    /\ UNCHANGED <<notFlow, events, loopLocals, page, loopHistory, indicator, outcomes>>

\* await this.addressBookAddButtons.first().waitFor({ state: 'visible', timeout })
WaitAddButtons ==
    /\ pc = "abAddButtons"
    /\ addButtons
    /\ Goto("clientAdd")
    /\ UNCHANGED <<notFlow, events, loopLocals, page, loopHistory, indicator, outcomes>>

WaitAddButtonsThrows ==
    /\ pc = "abAddButtons"
    /\ ~addButtons
    /\ Throw("abAddButtons", TimeoutError)
    /\ UNCHANGED <<notFlow, events, loopLocals, page, loopHistory, indicator, outcomes>>

----------------------------------------------------------------------------
(* selectClientFromAddressBook after the load, and the rest of the flow.   *)

\* await this.addressBookAddButtons.first().click({ force: true })
ClickClientAdd ==
    /\ pc = "clientAdd"
    /\ Goto("clientClose")
    /\ Happens(<<"clientAddClick">>)
    /\ UNCHANGED <<notFlow, loopLocals, page, loopHistory, indicator, outcomes>>

ClickClientAddThrows ==
    /\ pc = "clientAdd"
    /\ Throw("clientAdd", ClickError)
    /\ UNCHANGED <<notFlow, events, loopLocals, page, loopHistory, indicator, outcomes>>

\* await this.addressBookCloseButton.click()
ClickClose ==
    /\ pc = "clientClose"
    /\ Goto("abHidden")
    /\ Happens(<<"closeClick">>)
    /\ UNCHANGED <<notFlow, loopLocals, page, loopHistory, indicator, outcomes>>

ClickCloseThrows ==
    /\ pc = "clientClose"
    /\ Throw("clientClose", ClickError)
    /\ UNCHANGED <<notFlow, events, loopLocals, page, loopHistory, indicator, outcomes>>

\* a flow that goes on after CLOSE without waiting for the modal to go
WaitModalHidden_Unobserved ==
    /\ pc = "abHidden"
    /\ Goto("addProduct")
    /\ UNCHANGED <<notFlow, events, loopLocals, page, loopHistory, indicator, outcomes>>

\* await this.addressBookModal.waitFor({ state: 'hidden', timeout: 15000 })
WaitModalHidden ==
    /\ pc = "abHidden"
    /\ ~addressBookModal
    /\ Goto("addProduct")
    /\ Happens(<<"modalHidden">>)
    /\ UNCHANGED <<notFlow, loopLocals, page, loopHistory, indicator, outcomes>>

WaitModalHiddenThrows ==
    /\ pc = "abHidden"
    /\ addressBookModal
    /\ Throw("abHidden", TimeoutError)
    /\ UNCHANGED <<notFlow, events, loopLocals, page, loopHistory, indicator, outcomes>>

\* 4. Add Product: open the product modal, add one product, close the modal
AddProduct ==
    /\ pc = "addProduct"
    /\ Goto("shipping")
    /\ Happens(ProductEvents)
    /\ UNCHANGED <<notFlow, loopLocals, page, loopHistory, indicator, outcomes>>

AddProductThrows ==
    /\ pc = "addProduct"
    /\ \E err \in {ClickError, TimeoutError} : Throw("addProduct", err)
    /\ \E done \in 0 .. 2 : Happens(SubSeq(ProductEvents, 1, done))
    /\ UNCHANGED <<notFlow, loopLocals, page, loopHistory, indicator, outcomes>>

\* 4.5 Add Shipping Information: carrier, ship method, Ok
AddShipping ==
    /\ pc = "shipping"
    /\ Goto("saveOrder")
    /\ Happens(ShippingEvents)
    /\ UNCHANGED <<notFlow, loopLocals, page, loopHistory, indicator, outcomes>>

AddShippingThrows ==
    /\ pc = "shipping"
    /\ \E err \in {ClickError, TimeoutError} : Throw("shipping", err)
    /\ \E done \in 0 .. 3 : Happens(SubSeq(ShippingEvents, 1, done))
    /\ UNCHANGED <<notFlow, loopLocals, page, loopHistory, indicator, outcomes>>

\* 5. Save Order: wait for the button, expect it enabled, click it
SaveOrder ==
    /\ pc = "saveOrder"
    /\ Goto("done")
    /\ Happens(SaveEvents)
    /\ UNCHANGED <<notFlow, loopLocals, page, loopHistory, indicator, outcomes>>

SaveOrderThrows ==
    /\ pc = "saveOrder"
    /\ \E err \in {ClickError, TimeoutError} : Throw("saveOrder", err)
    /\ \E done \in 0 .. 1 : Happens(SubSeq(SaveEvents, 1, done))
    /\ UNCHANGED <<notFlow, loopLocals, page, loopHistory, indicator, outcomes>>

----------------------------------------------------------------------------
\* The next test: the fixture builds a new ShipedgeOrdersPage on a new page,
\* and the test body calls startCreateOrderFlow on it.
NewTest ==
    /\ pc \in {"failed", "done"}
    /\ pc' = "addOrder"
    /\ i' = 0
    /\ isModalVisible' = FALSE
    /\ error' = NoError
    /\ failedAt' = "none"
    /\ addressBookModal' \in BOOLEAN
    /\ processingIndicator' \in BOOLEAN
    /\ tableRows' \in BOOLEAN
    /\ addButtons' \in BOOLEAN
    /\ clicks' = 0
    /\ checks' = 0
    /\ backoffs' = 0
    /\ clickThrew' = FALSE
    /\ preVisible' = FALSE
    /\ everVisible' = FALSE
    /\ indicator' = "pending"
    /\ elapsed' = 0
    /\ events' = << >>
    /\ UNCHANGED <<notFlow, outcomes>>

\* the steps of the test
FlowStep ==
    \/ ClickAddOrder \/ ClickAddOrderThrows
    \/ WaitForLoadState \/ WaitForLoadStateThrows
    \/ handleRemindMeLaterPopup
    \/ EnterLoop \/ WaitAddressBookButtonThrows
    \/ ClickAddressBook \/ ClickAddressBookThrows
    \/ WaitObserved \/ WaitTimeout
    \/ Backoff
    \/ AfterLoopThrows \/ AfterLoopContinues
    \/ WaitModalVisible \/ WaitModalVisibleThrows
    \/ SettleModal
    \/ ProbeNotVisible \/ ProbeThrows \/ ProbeVisible
    \/ ProcessingHidden \/ ProcessingStuck
    \/ WaitTableRows \/ WaitTableRowsThrows
    \/ WaitAddButtons \/ WaitAddButtonsThrows
    \/ ClickClientAdd \/ ClickClientAddThrows
    \/ ClickClose \/ ClickCloseThrows
    \/ WaitModalHidden \/ WaitModalHiddenThrows
    \/ AddProduct \/ AddProductThrows
    \/ AddShipping \/ AddShippingThrows
    \/ SaveOrder \/ SaveOrderThrows

\* the steps of the page
PageStep ==
    \/ ModalChanges
    \/ ProcessingChanges
    \/ TableRowsChange
    \/ AddButtonsChange

Next ==
    \/ FlowStep
    \/ PageStep
    \/ NewTest

Spec == Init /\ [][Next]_vars

\* Every await of the flow settles: a click resolves or rejects, a bounded
\* wait resolves or times out.  Nothing is assumed of the page.
FairSpec == Spec /\ WF_vars(FlowStep)

----------------------------------------------------------------------------
(* Vocabulary of the properties.                                           *)

PreLoopSteps == {"addOrder", "loadState", "popup", "abButtonWait"}
LoopSteps == {"click", "wait", "backoff"}
LoadSteps == {"abModalWait", "abSettle", "abProbe", "abProcessingHidden",
              "abRows", "abAddButtons"}
AfterProbeSteps == {"abRows", "abAddButtons", "clientAdd", "clientClose", "abHidden",
                    "addProduct", "shipping", "saveOrder", "done"}
PostLoopSteps == LoadSteps \cup AfterProbeSteps

\* the step the flow is at, or the step at which it failed
ReachedStep == IF pc = "failed" THEN failedAt ELSE pc

InLoop == pc \in LoopSteps
Converged == isModalVisible /\ ~InLoop
TimedOut == pc = "failed" /\ failedAt = "afterLoop"
ActionFailed == pc = "failed" /\ failedAt = "click"

----------------------------------------------------------------------------
\* C1: when the loop is exhausted (the modal was never observed and no click
\* threw) the button was clicked exactly MaxAttempts = 3 times, every attempt
\* was checked, and the flow fails with 'Failed to open Address Book modal
\* after 3 attempts.'; a run with 3 failed checks ends in nothing else.
C1_Exhaustion ==
    /\ TimedOut => /\ clicks = MaxAttempts
                   /\ checks = MaxAttempts
                   /\ error = TimeoutMsg
                   /\ ~isModalVisible
    /\ (pc = "afterLoop" /\ ~isModalVisible) => clicks = MaxAttempts
    /\ (checks = MaxAttempts /\ ~isModalVisible /\ pc \notin {"backoff", "afterLoop"})
           => TimedOut
    /\ \A o \in outcomes : o.attempts = MaxAttempts

C1_Witness == TimedOut /\ clicks = MaxAttempts /\ error = TimeoutMsg

\* C2: when the modal is first observed during attempt k, the button has been
\* clicked exactly k times, the loop is left without another click or backoff
\* (k - 1 backoffs, all before the k-th click), and the flow goes on to the
\* client selection instead of failing with the timeout error.
C2_ConvergedOnAttemptK ==
    isModalVisible =>
        /\ clicks = checks
        /\ clicks = i + 1
        /\ backoffs = checks - 1
        /\ clicks <= MaxAttempts
        /\ ~InLoop
        /\ ReachedStep \in {"afterLoop"} \cup PostLoopSteps

C2_Witness == isModalVisible /\ checks = 2 /\ clicks = 2 /\ pc = "abModalWait"

C4_NoClickWhileOpen ==
    [][((ClickAddressBook \/ ClickAddressBookThrows) /\ clicks >= 1)
           => ~addressBookModal]_vars

\* C5: a click that throws on attempt j ends the flow with that error: the
\* flow has failed at the click with ClickError (not the timeout error), and
\* only the j - 1 checks and j - 1 backoffs of the earlier attempts happened.
C5_ActionFailureNotRetried ==
    clickThrew =>
        /\ ActionFailed
        /\ error = ClickError
        /\ error # TimeoutMsg
        /\ checks = clicks - 1
        /\ backoffs = clicks - 1
        /\ i = clicks - 1
        /\ ~isModalVisible

C5_Witness == clickThrew /\ clicks = 2 /\ ActionFailed

\* C6: the client selection and every later step are reached only after an
\* attempt observed the modal; an exhausted loop always fails the flow with
\* the timeout error.
C6_NeverSilentlySucceeds ==
    /\ ReachedStep \in PostLoopSteps => (isModalVisible /\ checks >= 1)
    /\ ReachedStep = "afterLoop" /\ pc = "failed" => (error = TimeoutMsg /\ ~isModalVisible)
    /\ ~isModalVisible => ReachedStep \in PreLoopSteps \cup LoopSteps \cup {"afterLoop"}

C6_Witness == pc = "done" /\ isModalVisible /\ checks = 3

\* C7: at most MaxAttempts clicks, one per attempt (i clicks before the click
\* of attempt i + 1, i + 1 after it), and after the timeout error was thrown
\* that invocation neither clicks nor checks again.
C7_Invariant ==
    /\ clicks <= MaxAttempts
    /\ checks <= clicks
    /\ pc = "click" => clicks = i
    /\ pc \in {"wait", "backoff"} => clicks = i + 1
    /\ TimedOut => (clicks = MaxAttempts /\ checks = MaxAttempts /\ i = MaxAttempts)

C7_AtMostMaxAttempts ==
    /\ []C7_Invariant
    /\ [][TimedOut => (pc' = "addOrder" \/ (clicks' = clicks /\ checks' = checks))]_vars

C7_Witness == pc = "wait" /\ clicks = MaxAttempts

\* C8: when every await of the flow settles, a retry loop that was entered
\* reaches one of its outcomes: converged, timed out or action failed.
C8_LoopTerminates == InLoop ~> (Converged \/ TimedOut \/ ActionFailed)

C8_Witness == pc = "afterLoop" /\ backoffs = MaxAttempts /\ ~isModalVisible

\* C9: the probe of the Processing indicator never fails the wait: whether the
\* indicator was never seen, the probe threw, or it was seen and then hidden,
\* the wait goes on to the row wait and the Add-button wait, and it returns
\* normally once a row and an Add button were seen.
C9_AbsenceIsNotAnError ==
    /\ pc = "failed" => failedAt \notin {"abProbe", "abProcessingHidden"}
    /\ indicator \in {"neverObserved", "probeError", "observedCleared"}
           => ReachedStep \in AfterProbeSteps
    /\ ReachedStep \in AfterProbeSteps => indicator # "pending"

C9_Witness == pc = "clientAdd" /\ indicator = "neverObserved" /\ tableRows /\ addButtons

\* C10 as stated: the value of the timeout failure tells a run in which the
\* modal never appeared from a run in which it appeared and vanished: two
\* reported failures with the same value come from the same case.
C10_FailureDistinguishesCases ==
    \A o1, o2 \in outcomes : o1.error = o2.error => o1.flipped = o2.flipped

\* C10 as amended: the timeout is reported as a plain Error whose message is
\* always 'Failed to open Address Book modal after 3 attempts.': it names the
\* 3 attempts made, and it is the same value in both cases.
C10_FailureIsOneFixedMessage ==
    \A o \in outcomes : o.error = TimeoutMsg /\ o.attempts = MaxAttempts

C10_Witness ==
    \E o1, o2 \in outcomes : o1.flipped /\ ~o2.flipped /\ o1.error = o2.error

----------------------------------------------------------------------------
\* the waiting time of n exhausted attempts: each one waits out its 2 s window
\* and then the 500 ms backoff
ExhaustedTime(n) == n * (PerAttemptTimeout + BackoffDelay)

C11_Invariant ==
    /\ (~isModalVisible /\ ReachedStep \in {"click", "afterLoop"})
           => elapsed = ExhaustedTime(i)
    /\ TimedOut => elapsed = ExhaustedTime(MaxAttempts)
    /\ \A n \in 0 .. MaxAttempts : n < i => ExhaustedTime(n) <= elapsed

----------------------------------------------------------------------------
(* Two tests at once.  The shipedgeOrdersPage fixture builds a new         *)
(* ShipedgeOrdersPage on the page of each test, and i and isModalVisible   *)
(* are locals of each call of startCreateOrderFlow; the workers interleave *)
(* the awaits of the two retry loops in any order.                         *)

\* number of tests running at the same time
NumTests == 2

Tests == 1 .. NumTests

\* one set of locals for all calls, as a counter kept outside the call would be
Slot_Shared(t) == 1

\* the call of test t has its own locals
Slot(t) == t

notPair == <<flowVars, hookVars, allureVars, loadVars, csvVars, suiteVars, orderVars>>

PairInit ==
    /\ FlowIdle
    /\ HookIdle
    /\ AllureIdle
    /\ LoadIdle
    /\ CsvIdle
    /\ SuiteIdle
    /\ OrderIdle
    /\ invocation = [s \in Tests |-> [i |-> 0, isModalVisible |-> FALSE]]
    /\ run \in [Tests -> [pc : {"start"}, modal : BOOLEAN, clicks : {0},
                          seen : {<< >>}, threw : {FALSE}]]

\* let isModalVisible = false; for (let i = 0; i < 3; ...
PairEnterLoop(t) ==
    /\ run[t].pc = "start"
    /\ invocation' = [invocation EXCEPT ![Slot(t)] = [i |-> 0, isModalVisible |-> FALSE]]
    /\ run' = [run EXCEPT ![t].pc = IF LoopCond(0) THEN "click" ELSE "afterLoop"]
    /\ UNCHANGED notPair

\* await this.addressBookButton.click({ force: true })
PairClick(t) ==
    /\ run[t].pc = "click"
    /\ run' = [run EXCEPT ![t].pc = "wait", ![t].clicks = @ + 1]
    /\ UNCHANGED <<notPair, invocation>>

PairClickThrows(t) ==
    /\ run[t].pc = "click"
    /\ run' = [run EXCEPT ![t].pc = "actionFailed", ![t].clicks = @ + 1, ![t].threw = TRUE]
    /\ UNCHANGED <<notPair, invocation>>

\* waitFor resolves on the page of test t: isModalVisible = true; break
PairWaitObserved(t) ==
    /\ run[t].pc = "wait"
    /\ run[t].modal
    /\ invocation' = [invocation EXCEPT ![Slot(t)].isModalVisible = TRUE]
    /\ run' = [run EXCEPT ![t].pc = "afterLoop", ![t].seen = Append(@, TRUE)]
    /\ UNCHANGED notPair

\* waitFor times out on the page of test t
PairWaitTimeout(t) ==
    /\ run[t].pc = "wait"
    /\ ~run[t].modal
    /\ run' = [run EXCEPT ![t].pc = "backoff", ![t].seen = Append(@, FALSE)]
    /\ UNCHANGED <<notPair, invocation>>

\* waitForTimeout(500); i++; i < 3
PairBackoff(t) ==
    /\ run[t].pc = "backoff"
    /\ invocation' = [invocation EXCEPT ![Slot(t)].i = @ + 1]
    /\ run' = [run EXCEPT ![t].pc = IF LoopCond(invocation[Slot(t)].i + 1)
                                        THEN "click" ELSE "afterLoop"]
    /\ UNCHANGED notPair

\* if (!isModalVisible) throw ...; else the flow goes on
PairAfterLoop(t) ==
    /\ run[t].pc = "afterLoop"
    /\ run' = [run EXCEPT ![t].pc = IF invocation[Slot(t)].isModalVisible
                                        THEN "converged" ELSE "timedOut"]
    /\ UNCHANGED <<notPair, invocation>>

\* the page of test t shows or hides its Address Book modal
PairModalChanges(t) ==
    /\ run' = [run EXCEPT ![t].modal = ~@]
    /\ UNCHANGED <<notPair, invocation>>

\* the worker of test t takes its next test: a new page, a new page object
PairNewTest(t) ==
    /\ run[t].pc \in {"converged", "timedOut", "actionFailed"}
    /\ \E m \in BOOLEAN :
           run' = [run EXCEPT ![t] = [pc |-> "start", modal |-> m, clicks |-> 0,
                                      seen |-> << >>, threw |-> FALSE]]
    /\ UNCHANGED <<notPair, invocation>>

PairNext ==
    \E t \in Tests :
        \/ PairEnterLoop(t)
        \/ PairClick(t)
        \/ PairClickThrows(t)
        \/ PairWaitObserved(t)
        \/ PairWaitTimeout(t)
        \/ PairBackoff(t)
        \/ PairAfterLoop(t)
        \/ PairModalChanges(t)
        \/ PairNewTest(t)

PairSpec == PairInit /\ [][PairNext]_vars

\* what the checks a test made on its own page decide
OutcomeOf(seen) ==
    IF Len(seen) > 0 /\ seen[Len(seen)] THEN "converged"
    ELSE IF Len(seen) = MaxAttempts THEN "timedOut"
    ELSE "running"

C12_OwnHistoryDecides(t) ==
    LET r == run[t]
        l == invocation[Slot(t)]
    IN  /\ r.pc = "start" => (r.clicks = 0 /\ r.seen = << >>)
        /\ r.pc = "click" => (l.i = Len(r.seen) /\ ~l.isModalVisible /\ r.clicks = l.i)
        /\ r.pc \in {"wait", "backoff"} => (r.clicks = l.i + 1 /\ ~l.isModalVisible)
        /\ r.pc = "converged" => (OutcomeOf(r.seen) = "converged" /\ r.clicks = Len(r.seen))
        /\ r.pc = "timedOut" => (OutcomeOf(r.seen) = "timedOut" /\ r.clicks = MaxAttempts)
        /\ r.pc = "actionFailed" => (r.threw /\ r.clicks = Len(r.seen) + 1)
        /\ r.clicks <= MaxAttempts

\* C12: the locals of the loop start at 0 / false in every invocation and
\* belong to it alone: in every interleaving of the tests the clicks and the
\* outcome of a test are decided by the checks it made on its own page, and a
\* step of one test changes nothing of another test.
C12_NoSharedState ==
    /\ [](\A t \in Tests : C12_OwnHistoryDecides(t))
    /\ [][\A t, u \in Tests :
             (t # u /\ run'[t] # run[t])
                 => (run'[u] = run[u] /\ invocation'[Slot(u)] = invocation[Slot(u)])]_vars

C12_Witness ==
    \E t, u \in Tests :
        /\ run[t].pc = "timedOut" /\ run[t].clicks = MaxAttempts
        /\ run[u].pc = "converged" /\ run[u].clicks = 1

(***************************************************************************)
(* The lifecycle of one test: the saveAttachments fixture                  *)
(* (lib/helpers-fixtures.ts) is set up, beforeEach and the test body run,  *)
(* the afterEach hook of the test file calls captureTestFailure            *)
(* (lib/test-failure-capture.ts) for a test that did not end as expected,  *)
(* and the fixture is torn down.  The page writes to its console and the   *)
(* clock advances at any moment.                                           *)
(***************************************************************************)

\* console messages and clock ticks followed per test
MaxConsole == 2
MaxClock == 2

notHook == <<flowVars, pairVars, allureVars, loadVars, csvVars, suiteVars, orderVars>>

ConsoleTypes == {"log", "error"}
ConsoleTexts == {"ready", "boom"}
ConsoleMessages == [type : ConsoleTypes, text : ConsoleTexts]

\* the character U+2013
EnDash == "EN DASH"
Whitespace == {" ", "\t", "\n"}

\* titles of tests, character by character
Titles ==
    { <<"T", "C", " ", "1">>,
      <<"a", " ", EnDash, " ", "b">>,
      <<"x", "\t", "-", "y">>,
      <<"o", "k">> }

\* a line that leaves the type of the message out
LogLine_TextOnly(msg) == msg.text

\* `${msg.type()}: ${msg.text()}`
LogLine(msg) == msg.type \o ": " \o msg.text

\* new Date().toLocaleTimeString(...).replace(/:/g, '_')
toLocaleTimeString(now) == <<"time", now>>

\* new Date().toLocaleDateString(...).replace(/\//g, '_')
toLocaleDateString(now) == <<"date", now>>

\* testInfo.title.toString().replace(/[\s<U+2013>]/g, "_")
Sanitize(t) ==
    [k \in 1 .. Len(t) |-> IF t[k] \in Whitespace \cup {EnDash} THEN "_" ELSE t[k]]

\* a name built inline from a fresh reading of the clock
ArtifactName_FreshStamp(kind, ext) ==
    <<"failure_", kind, toLocaleTimeString(clock), dateTimestamp, testTitle, ext>>

\* `failure_<kind>_${timeTimestamp}_${dateTimestamp}_${testTitle}<ext>`
ArtifactName(kind, ext) ==
    <<"failure_", kind, timeTimestamp, dateTimestamp, testTitle, ext>>

\* testInfo.error, the first error the test threw: there is one when the
\* test failed or timed out
HasTestError == status \in {"failed", "timedOut"}

TestError == [message |-> "thrown by the test"]

\* afterEach: const error = new Error(`Test failed with status: ${testInfo.status}`)
PassedError == [message |-> "Test failed with status: " \o status]

\* a capture that reports the error it was passed, whatever testInfo holds
detailedError_PassedError == PassedError

\* const detailedError = testInfo.error || error
detailedError == IF HasTestError THEN TestError ELSE PassedError

\* errorLog = `Error: ${cleanMessage}...`
errorLog == "Error: " \o detailedError.message

\* what an artifact holds: the error log, or the capture of its own kind
ArtifactContent(kind) == IF kind = "error_msg" THEN errorLog ELSE kind

CaptureAttachment(kind, ext) ==
    [by |-> "captureTestFailure", kind |-> kind, name |-> ArtifactName(kind, ext),
     content |-> ArtifactContent(kind)]

HookInit ==
    /\ FlowIdle
    /\ PairIdle
    /\ AllureIdle
    /\ LoadIdle
    /\ CsvIdle
    /\ SuiteIdle
    /\ OrderIdle
    /\ phase = "setup"
    /\ status = "none"
    /\ expectedStatus \in {"passed", "failed"}
    /\ title \in Titles
    /\ logs = <<>>
    /\ emitted = <<>>
    /\ attachments = <<>>
    /\ report = <<>>
    /\ clock = 0
    /\ timeTimestamp = <<>>
    /\ dateTimestamp = <<>>
    /\ testTitle = <<>>
    /\ captureCalls = 0
    /\ captureThrew = FALSE
    /\ body = "pending"
    /\ teardownThrew = FALSE

testInfo == <<status, expectedStatus, title>>
captureLocals == <<timeTimestamp, dateTimestamp, testTitle>>
console == <<logs, emitted>>

HookGoto(next) == phase' = next

\* const logs = []; page.on('console', ...); await use()
SaveAttachmentsSetup ==
    /\ phase = "setup"
    /\ logs' = <<>>
    /\ HookGoto("beforeEach")
    /\ UNCHANGED <<notHook, testInfo, emitted, attachments, report, clock, captureLocals,
                   captureCalls, captureThrew, body, teardownThrew>>

\* the listener: logs.push(`${msg.type()}: ${msg.text()}`)
ConsoleMessage ==
    /\ phase \notin {"idle", "setup", "done"}
    /\ Len(emitted) < MaxConsole
    /\ \E msg \in ConsoleMessages :
          /\ emitted' = Append(emitted, msg)
          /\ logs' = Append(logs, LogLine(msg))
    /\ UNCHANGED <<notHook, phase, testInfo, attachments, report, clock, captureLocals,
                   captureCalls, captureThrew, body, teardownThrew>>

Tick ==
    /\ phase \notin {"idle", "done"}
    /\ clock < MaxClock
    /\ clock' = clock + 1
    /\ UNCHANGED <<notHook, phase, testInfo, console, attachments, report, captureLocals,
                   captureCalls, captureThrew, body, teardownThrew>>

BeforeEachPasses ==
    /\ phase = "beforeEach"
    /\ HookGoto("body")
    /\ body' = "running"
    /\ UNCHANGED <<notHook, testInfo, console, attachments, report, clock, captureLocals,
                   captureCalls, captureThrew, teardownThrew>>

\* a beforeEach hook rejects: the body is not run, the afterEach hooks are
BeforeEachFails ==
    /\ phase = "beforeEach"
    /\ HookGoto("afterEach")
    /\ status' \in {"failed", "timedOut"}
    /\ body' = "notRun"
    /\ UNCHANGED <<notHook, expectedStatus, title, console, attachments, report, clock,
                   captureLocals, captureCalls, captureThrew, teardownThrew>>

BodyEnds ==
    /\ phase = "body"
    /\ HookGoto("afterEach")
    /\ status' \in {"passed", "failed", "timedOut"}
    /\ body' = "finished"
    /\ UNCHANGED <<notHook, expectedStatus, title, console, attachments, report, clock,
                   captureLocals, captureCalls, captureThrew, teardownThrew>>

\* test.skip() in the body
BodySkips ==
    /\ phase = "body"
    /\ HookGoto("afterEach")
    /\ status' = "skipped"
    /\ expectedStatus' = "skipped"
    /\ body' = "finished"
    /\ UNCHANGED <<notHook, title, console, attachments, report, clock,
                   captureLocals, captureCalls, captureThrew, teardownThrew>>

\* afterEach: if (testInfo.status !== testInfo.expectedStatus) is false
AfterEachNothing ==
    /\ phase = "afterEach"
    /\ status = expectedStatus
    /\ HookGoto("teardown")
    /\ UNCHANGED <<notHook, testInfo, console, attachments, report, clock, captureLocals,
                   captureCalls, captureThrew, body, teardownThrew>>

\* a hook that captures whatever the status is
AfterEachCaptures_Always ==
    /\ phase = "afterEach"
    /\ captureCalls' = captureCalls + 1
    /\ timeTimestamp' = toLocaleTimeString(clock)
    /\ HookGoto("date")
    /\ UNCHANGED <<notHook, testInfo, console, attachments, report, clock, dateTimestamp,
                   testTitle, captureThrew, body, teardownThrew>>

\* afterEach: await captureTestFailure(page, testInfo, error), up to the
\* first reading of the clock
AfterEachCaptures ==
    /\ phase = "afterEach"
    /\ status # expectedStatus
    /\ captureCalls' = captureCalls + 1
    /\ timeTimestamp' = toLocaleTimeString(clock)
    /\ HookGoto("date")
    /\ UNCHANGED <<notHook, testInfo, console, attachments, report, clock, dateTimestamp,
                   testTitle, captureThrew, body, teardownThrew>>

\* the second reading of the clock and the title
ReadDate ==
    /\ phase = "date"
    /\ dateTimestamp' = toLocaleDateString(clock)
    /\ testTitle' = Sanitize(title)
    /\ HookGoto("screenshot")
    /\ UNCHANGED <<notHook, testInfo, console, attachments, report, clock, timeTimestamp,
                   captureCalls, captureThrew, body, teardownThrew>>

CaptureReads(next) ==
    /\ HookGoto(next)
    /\ UNCHANGED <<notHook, testInfo, console, attachments, report, clock, captureLocals,
                   captureCalls, captureThrew, body, teardownThrew>>

CaptureAttaches(next, kind, ext) ==
    /\ report' = Append(report, CaptureAttachment(kind, ext))
    /\ HookGoto(next)
    /\ UNCHANGED <<notHook, testInfo, console, attachments, clock, captureLocals,
                   captureCalls, captureThrew, body, teardownThrew>>

\* await page.screenshot({ fullPage: true })
TakeScreenshot ==
    /\ phase = "screenshot"
    /\ CaptureReads("attachScreenshot")

\* await allure.attachment(screenshotName, screenshot, 'image/png')
AttachScreenshot ==
    /\ phase = "attachScreenshot"
    /\ CaptureAttaches("content", "screenshot", ".png")

\* await page.content()
ReadContent ==
    /\ phase = "content"
    /\ CaptureReads("attachSource")

\* await allure.attachment(sourceCodeName, pageSource, 'text/html')
AttachSource ==
    /\ phase = "attachSource"
    /\ CaptureAttaches("attachErrorMsg", "src_code", ".html")

\* await allure.attachment(errorName, errorLog, 'text/plain')
AttachErrorMsg ==
    /\ phase = "attachErrorMsg"
    /\ CaptureAttaches("attachUrl", "error_msg", ".txt")

\* page.url(); await allure.attachment(currentUrlFilename, ...); the try block ends
AttachUrl ==
    /\ phase = "attachUrl"
    /\ CaptureAttaches("teardown", "current_url", ".txt")

CapturePhases ==
    {"screenshot", "attachScreenshot", "content", "attachSource", "attachErrorMsg",
     "attachUrl"}

\* catch (captureError) { log.error('Failed to capture error artifacts', ...) }
CaptureThrows ==
    /\ phase \in CapturePhases
    /\ captureThrew' = TRUE
    /\ HookGoto("teardown")
    /\ UNCHANGED <<notHook, testInfo, console, attachments, report, clock, captureLocals,
                   captureCalls, body, teardownThrew>>

\* after await use(): if (testInfo.status !== testInfo.expectedStatus) is false
TeardownNothing ==
    /\ phase = "teardown"
    /\ status = expectedStatus
    /\ HookGoto("done")
    /\ UNCHANGED <<notHook, testInfo, console, attachments, report, clock, captureLocals,
                   captureCalls, captureThrew, body, teardownThrew>>

\* await fs.promises.writeFile(logFile, logs.join('\n'), 'utf8');
\* testInfo.attachments.push({ name: 'logs', ... })
WriteLogs ==
    /\ phase = "teardown"
    /\ status # expectedStatus
    /\ attachments' = Append(attachments, "logs")
    /\ HookGoto("teardownScreenshot")
    /\ UNCHANGED <<notHook, testInfo, console, report, clock, captureLocals,
                   captureCalls, captureThrew, body, teardownThrew>>

\* await page.screenshot()
TeardownScreenshot ==
    /\ phase = "teardownScreenshot"
    /\ HookGoto("teardownAllure")
    /\ UNCHANGED <<notHook, testInfo, console, attachments, report, clock, captureLocals,
                   captureCalls, captureThrew, body, teardownThrew>>

\* await attachment(`${testInfo.title}-${testInfo.status}`, screenshotBuffer, ...)
TeardownAllure ==
    /\ phase = "teardownAllure"
    /\ report' = Append(report, [by |-> "saveAttachments", kind |-> "screenshot",
                                 name |-> <<title, "-", status>>])
    /\ HookGoto("teardownAttach")
    /\ UNCHANGED <<notHook, testInfo, console, attachments, clock, captureLocals,
                   captureCalls, captureThrew, body, teardownThrew>>

\* await testInfo.attach('screenshot', ...)
TeardownAttach ==
    /\ phase = "teardownAttach"
    /\ attachments' = Append(attachments, "screenshot")
    /\ HookGoto("done")
    /\ UNCHANGED <<notHook, testInfo, console, report, clock, captureLocals,
                   captureCalls, captureThrew, body, teardownThrew>>

\* writeFile, screenshot, attachment or attach rejects: the teardown has no catch
TeardownThrows ==
    /\ \/ phase = "teardown" /\ status # expectedStatus
       \/ phase \in {"teardownScreenshot", "teardownAllure", "teardownAttach"}
    /\ teardownThrew' = TRUE
    /\ HookGoto("done")
    /\ UNCHANGED <<notHook, testInfo, console, attachments, report, clock, captureLocals,
                   captureCalls, captureThrew, body>>

\* the next test of the file, with fixtures of its own
NextTest ==
    /\ phase = "done"
    /\ phase' = "setup"
    /\ status' = "none"
    /\ expectedStatus' \in {"passed", "failed"}
    /\ title' \in Titles
    /\ logs' = <<>>
    /\ emitted' = <<>>
    /\ attachments' = <<>>
    /\ report' = <<>>
    /\ timeTimestamp' = <<>>
    /\ dateTimestamp' = <<>>
    /\ testTitle' = <<>>
    /\ captureCalls' = 0
    /\ captureThrew' = FALSE
    /\ body' = "pending"
    /\ teardownThrew' = FALSE
    /\ UNCHANGED <<notHook, clock>>

HookNext ==
    \/ SaveAttachmentsSetup
    \/ ConsoleMessage
    \/ Tick
    \/ BeforeEachPasses
    \/ BeforeEachFails
    \/ BodyEnds
    \/ BodySkips
    \/ AfterEachNothing
    \/ AfterEachCaptures
    \/ ReadDate
    \/ TakeScreenshot
    \/ AttachScreenshot
    \/ ReadContent
    \/ AttachSource
    \/ AttachErrorMsg
    \/ AttachUrl
    \/ CaptureThrows
    \/ TeardownNothing
    \/ WriteLogs
    \/ TeardownScreenshot
    \/ TeardownAllure
    \/ TeardownAttach
    \/ TeardownThrows
    \/ NextTest

HookSpec == HookInit /\ [][HookNext]_vars

BeforeHookPhases == {"setup", "beforeEach", "body", "afterEach"}

HookRan == phase \notin BeforeHookPhases \cup {"idle"}

TeardownPhases == {"teardown", "teardownScreenshot", "teardownAllure", "teardownAttach"}

\* what captureTestFailure gave to Allure
Artifacts == SelectSeq(report, LAMBDA a : a.by = "captureTestFailure")

\* the call of captureTestFailure is over and none of its steps rejected
CaptureSucceeded ==
    /\ captureCalls = 1
    /\ ~captureThrew
    /\ phase \in TeardownPhases \cup {"done"}

IsSanitized(t, s) ==
    /\ Len(s) = Len(t)
    /\ \A k \in 1 .. Len(t) :
          /\ s[k] \notin Whitespace \cup {EnDash}
          /\ t[k] \in Whitespace \cup {EnDash} => s[k] = "_"
          /\ t[k] \notin Whitespace \cup {EnDash} => s[k] = t[k]

\* C14: a call of captureTestFailure whose steps all succeed attaches
\* exactly four artifacts, in the order screenshot, page source, error
\* message, current URL; every name starts with "failure_", and the four
\* names carry one time stamp, one date stamp and the title of the test
\* with each whitespace character and each en dash replaced by "_".
C14_FourArtifactsOneStamp ==
    CaptureSucceeded =>
        /\ [k \in 1 .. Len(Artifacts) |-> Artifacts[k].kind]
              = <<"screenshot", "src_code", "error_msg", "current_url">>
        /\ \A k \in 1 .. Len(Artifacts) :
              /\ Artifacts[k].name[1] = "failure_"
              /\ Artifacts[k].name[2] = Artifacts[k].kind
              /\ Artifacts[k].name[3] = Artifacts[1].name[3]
              /\ Artifacts[k].name[4] = Artifacts[1].name[4]
              /\ IsSanitized(title, Artifacts[k].name[5])

C14_Witness ==
    /\ CaptureSucceeded
    /\ Len(Artifacts) = 4
    /\ title = <<"a", " ", EnDash, " ", "b">>
    /\ Artifacts[4].name[5] = <<"a", "_", "_", "_", "b">>
    /\ Artifacts[4].name[3] = toLocaleTimeString(0)
    /\ Artifacts[4].name[4] = toLocaleDateString(1)
    /\ clock = 2

\* the logs array holds one line per console message, in the order emitted
LogsFollowConsole ==
    /\ Len(logs) = Len(emitted)
    /\ \A k \in 1 .. Len(emitted) :
          logs[k] = emitted[k].type \o ": " \o emitted[k].text

\* C17 as stated: the fixture records every console message in order as
\* "<type>: <text>"; when the test is over, the attachments "logs" and
\* "screenshot" have been added if and only if the status differs from the
\* expected status, "logs" before the screenshot is taken.
C17_AttachedIffUnexpected ==
    /\ LogsFollowConsole
    /\ phase \in {"teardownScreenshot", "teardownAllure", "teardownAttach"}
          => attachments = <<"logs">>
    /\ phase = "done" =>
          (status # expectedStatus <=> attachments = <<"logs", "screenshot">>)

\* C17, amended: the attachments are added only if the status differs from
\* the expected status, "logs" before the screenshot is taken; both are
\* there at the end when no step of the teardown rejected, and a rejected
\* step leaves out the attachments that come after it.
C17_AttachedUnlessRejected ==
    /\ LogsFollowConsole
    /\ attachments \in {<<>>, <<"logs">>, <<"logs", "screenshot">>}
    /\ attachments # <<>> => status # expectedStatus
    /\ phase \in {"teardownScreenshot", "teardownAllure", "teardownAttach"}
          => attachments = <<"logs">>
    /\ (phase = "done" /\ status # expectedStatus /\ ~teardownThrew)
          => attachments = <<"logs", "screenshot">>
    /\ (phase = "done" /\ teardownThrew)
          => (status # expectedStatus /\ attachments \in {<<>>, <<"logs">>})

C17_Witness ==
    /\ phase = "done"
    /\ status = "failed"
    /\ expectedStatus = "passed"
    /\ ~teardownThrew
    /\ attachments = <<"logs", "screenshot">>
    /\ logs = <<"log: ready", "error: boom">>

(***************************************************************************)
(* AllureHelper (lib/helpers-fixtures.ts): a test applies its metadata     *)
(* with applyTestMetadata and later attaches a screenshot with             *)
(* attachScreenShot.  Every await is one step; a call of the Allure API or *)
(* of the page may reject.                                                 *)
(***************************************************************************)

notAllure == <<flowVars, pairVars, hookVars, loadVars, csvVars, suiteVars, orderVars>>

\* the fields of TestMetadataOptions in the order applyTestMetadata reads them
Fields ==
    <<"displayName", "owner", "tags", "severity", "epic", "feature", "story",
      "parentSuite", "suite", "subSuite">>

Undefined == [type |-> "undefined", str |-> "", items |-> <<>>]
Null == [type |-> "null", str |-> "", items |-> <<>>]
Str(chars) == [type |-> "string", str |-> chars, items |-> <<>>]
Array(elems) == [type |-> "array", str |-> "", items |-> elems]

\* the ways a test leaves a field out
Ways == {"undefined", "null", "empty"}

LeftOut(way, name) ==
    CASE way = "undefined" -> Undefined
      [] way = "null" -> Null
      [] way = "empty" -> IF name = "tags" THEN Array(<< >>) ELSE Str("")

\* the value a test gives a field
Given(name) ==
    IF name = "tags" THEN Array(<<"Orders", "Smoke">>) ELSE Str(name)

\* the arguments: any fields given, the others all left out in one way
OptionSets ==
    { [k \in DOMAIN Fields |->
          IF k \in given THEN Given(Fields[k]) ELSE LeftOut(way, Fields[k])] :
      given \in SUBSET DOMAIN Fields, way \in Ways }

\* JavaScript truthiness of a value
Truthy(v) ==
    CASE v.type = "undefined" -> FALSE
      [] v.type = "null" -> FALSE
      [] v.type = "string" -> v.str # ""
      [] v.type = "array" -> TRUE

\* v?.length is truthy
HasLength(v) == v.type \notin {"undefined", "null"} /\ Len(v.items) # 0

\* a condition that reads if (options.tags)
Condition_ArrayIsTruthy(k) == Truthy(options[k])

\* the condition of the if statement of field k

Condition(k) ==
    IF Fields[k] = "tags"
    THEN HasLength(options[k])
    ELSE Truthy(options[k])

AllureInit ==
    /\ FlowIdle
    /\ PairIdle
    /\ HookIdle
    /\ LoadIdle
    /\ CsvIdle
    /\ SuiteIdle
    /\ OrderIdle
    /\ allurePc = "metadata"
    /\ options \in OptionSets
    /\ field = 1
    /\ calls = <<>>
    /\ metadataError = NoError
    /\ allureAttachments = <<>>
    /\ consoleErrors = 0
    /\ screenshotError = NoError
    /\ rejectedStep = "none"

screenshotVars == <<allureAttachments, consoleErrors, screenshotError, rejectedStep>>

\* if (options.x) is false: on to the next field
SkipField ==
    /\ allurePc = "metadata"
    /\ field <= Len(Fields)
    /\ ~Condition(field)
    /\ field' = field + 1
    /\ UNCHANGED <<notAllure, allurePc, options, calls, metadataError, screenshotVars>>

\* if (options.x) await allure.x(options.x), the call resolves
SetField ==
    /\ allurePc = "metadata"
    /\ field <= Len(Fields)
    /\ Condition(field)
    /\ calls' = Append(calls, [setter |-> Fields[field], args |-> options[field]])
    /\ field' = field + 1
    /\ UNCHANGED <<notAllure, allurePc, options, metadataError, screenshotVars>>

\* await allure.x(options.x) rejects: there is no catch, the test fails
SetterThrows ==
    /\ allurePc = "metadata"
    /\ field <= Len(Fields)
    /\ Condition(field)
    /\ metadataError' = Fields[field]
    /\ allurePc' = "failed"
    /\ UNCHANGED <<notAllure, options, field, calls, screenshotVars>>

\* applyTestMetadata returns; the test goes on to attachScreenShot(page)
MetadataApplied ==
    /\ allurePc = "metadata"
    /\ field > Len(Fields)
    /\ allurePc' = "screenshot"
    /\ UNCHANGED <<notAllure, options, field, calls, metadataError, screenshotVars>>

metadataVars == <<options, field, calls, metadataError>>

\* const buf = await page.screenshot({ fullPage: true }) resolves
ScreenshotResolves ==
    /\ allurePc = "screenshot"
    /\ allurePc' = "attachment"
    /\ UNCHANGED <<notAllure, metadataVars, screenshotVars>>

\* a rejected screenshot that leaves attachScreenShot as an error
ScreenshotRejects_Propagates ==
    /\ allurePc = "screenshot"
    /\ rejectedStep' = "screenshot"
    /\ screenshotError' = "ScreenshotError"
    /\ allurePc' = "failed"
    /\ UNCHANGED <<notAllure, metadataVars, allureAttachments, consoleErrors>>

\* page.screenshot rejects: catch (error) { console.error(...) }
ScreenshotRejects ==
    /\ allurePc = "screenshot"
    /\ rejectedStep' = "screenshot"
    /\ consoleErrors' = consoleErrors + 1
    /\ allurePc' = "returned"
    /\ UNCHANGED <<notAllure, metadataVars, allureAttachments, screenshotError>>

\* await allure.attachment('Screenshot', buf, ContentType.PNG) resolves
AttachmentResolves ==
    /\ allurePc = "attachment"
    /\ allureAttachments' = Append(allureAttachments, "Screenshot")
    /\ allurePc' = "returned"
    /\ UNCHANGED <<notAllure, metadataVars, consoleErrors, screenshotError, rejectedStep>>

\* allure.attachment rejects: catch (error) { console.error(...) }
AttachmentRejects ==
    /\ allurePc = "attachment"
    /\ rejectedStep' = "attachment"
    /\ consoleErrors' = consoleErrors + 1
    /\ allurePc' = "returned"
    /\ UNCHANGED <<notAllure, metadataVars, allureAttachments, screenshotError>>

AllureNext ==
    \/ SkipField
    \/ SetField
    \/ SetterThrows
    \/ MetadataApplied
    \/ ScreenshotResolves
    \/ ScreenshotRejects
    \/ AttachmentResolves
    \/ AttachmentRejects

AllureSpec == AllureInit /\ [][AllureNext]_vars

\* C15: attachScreenShot never rejects; a failure of the screenshot or of
\* the attachment is logged with console.error and the call returns, and
\* after a failed screenshot nothing has been attached.
C15_ScreenshotNeverPropagates ==
    /\ screenshotError = NoError
    /\ allurePc # "failed" \/ metadataError # NoError
    /\ rejectedStep # "none" =>
          /\ allurePc = "returned"
          /\ consoleErrors = 1
          /\ allureAttachments = <<>>
    /\ (allurePc = "returned" /\ rejectedStep = "none") =>
          /\ consoleErrors = 0
          /\ allureAttachments = <<"Screenshot">>

C15_Witness ==
    /\ allurePc = "returned"
    /\ rejectedStep = "screenshot"
    /\ consoleErrors = 1
    /\ allureAttachments = <<>>

\* the indices of the first n fields that carry a value
ProvidedUpTo(n) ==
    SelectSeq([k \in 1 .. n |-> k],
              LAMBDA k : options[k] \notin {Undefined, Null, Str(""), Array(<< >>)})

SettersOf(indices) ==
    [j \in 1 .. Len(indices) |->
        [setter |-> Fields[indices[j]], args |-> options[indices[j]]]]

\* C16: applyTestMetadata has called, once each and in the order of Fields,
\* the setters of exactly those fields read so far that are neither
\* undefined, null, an empty string nor an empty tag list; when a setter
\* rejects, the error leaves applyTestMetadata and no later setter is called.
C16_SettersFollowOptions ==
    /\ calls = SettersOf(ProvidedUpTo(field - 1))
    /\ (allurePc \notin {"metadata", "failed"}) => field = Len(Fields) + 1
    /\ metadataError # NoError =>
          /\ allurePc = "failed"
          /\ metadataError = Fields[field]
          /\ \A j \in 1 .. Len(calls) : \A k \in field .. Len(Fields) :
                calls[j].setter # Fields[k]
    /\ allurePc = "failed" => metadataError # NoError

C16_Witness ==
    /\ allurePc = "failed"
    /\ metadataError = "epic"
    /\ options[3] = Array(<< >>)
    /\ options[10] = Str("subSuite")
    /\ [j \in 1 .. Len(calls) |-> calls[j].setter] = <<"displayName", "severity">>

(***************************************************************************)
(* The waitForPageLoad fixture (lib/helpers-fixtures.ts).  Its setup goes  *)
(* to '/' and waits for the three load states, then hands the test a       *)
(* function.  The test navigates, with page.goto or by clicking a link,    *)
(* and calls the function after each navigation.  The page reaches its     *)
(* load states one after the other, at its own pace.                       *)
(***************************************************************************)

\* navigations of the test body followed
MaxNavigations == 2

notLoad == <<flowVars, pairVars, hookVars, allureVars, csvVars, suiteVars, orderVars>>

\* in the order a page reaches them
LoadStateOrder == <<"domcontentloaded", "load", "networkidle">>
AllLoadStates == {LoadStateOrder[k] : k \in DOMAIN LoadStateOrder}

\* page.goto resolves when the load event has fired (waitUntil: 'load')
AfterGoto == {"domcontentloaded", "load"}

BaseUrl == "/"
Targets == {"/login", "/orders"}

LoadInit ==
    /\ FlowIdle
    /\ PairIdle
    /\ HookIdle
    /\ AllureIdle
    /\ CsvIdle
    /\ SuiteIdle
    /\ OrderIdle
    /\ loadPc = "fixtureGoto"
    /\ url = "about:blank"
    /\ loadStates = {}
    /\ target = <<"none", "about:blank">>
    /\ returns = <<>>

\* the page reaches its next load state
PageProgress ==
    /\ loadPc \notin {"idle", "done", "failed"}
    /\ \E k \in DOMAIN LoadStateOrder :
          /\ LoadStateOrder[k] \notin loadStates
          /\ \A j \in 1 .. k - 1 : LoadStateOrder[j] \in loadStates
          /\ loadStates' = loadStates \cup {LoadStateOrder[k]}
    /\ UNCHANGED <<notLoad, loadPc, url, target, returns>>

\* await page.goto('/')
FixtureGoto ==
    /\ loadPc = "fixtureGoto"
    /\ url' = BaseUrl
    /\ loadStates' = AfterGoto
    /\ loadPc' = "fixtureWait"
    /\ UNCHANGED <<notLoad, target, returns>>

\* the three await page.waitForLoadState(..., {timeout: 60000}) resolve
FixtureWaits ==
    /\ loadPc = "fixtureWait"
    /\ loadStates = AllLoadStates
    /\ loadPc' = "use"
    /\ UNCHANGED <<notLoad, url, loadStates, target, returns>>

\* page.goto rejects or waitForLoadState('networkidle') times out
FixtureThrows ==
    /\ \/ loadPc = "fixtureGoto"
       \/ loadPc = "fixtureWait" /\ "networkidle" \notin loadStates
    /\ loadPc' = "failed"
    /\ UNCHANGED <<notLoad, url, loadStates, target, returns>>

\* use(() => Promise.resolve()): the test gets its function and starts
Use ==
    /\ loadPc = "use"
    /\ loadPc' = "test"
    /\ UNCHANGED <<notLoad, url, loadStates, target, returns>>

\* the test: await page.goto(X)
TestGoto ==
    /\ loadPc = "test"
    /\ Len(returns) < MaxNavigations
    /\ \E x \in Targets : url' = x /\ target' = <<"goto", x>>
    /\ loadStates' = AfterGoto
    /\ loadPc' = "call"
    /\ UNCHANGED <<notLoad, returns>>

\* the test: await somePage.clickOnSomeLink(), the click starts a navigation
TestClick ==
    /\ loadPc = "test"
    /\ Len(returns) < MaxNavigations
    /\ \E x \in Targets : url' = x /\ target' = <<"click", x>>
    /\ loadStates' = {}
    /\ loadPc' = "call"
    /\ UNCHANGED <<notLoad, returns>>

\* the test: await waitForPageLoad(), that is () => Promise.resolve()
CallWaitForPageLoad ==
    /\ loadPc = "call"
    /\ returns' = Append(returns, [via |-> target[1], target |-> target[2],
                                   url |-> url, states |-> loadStates])
    /\ loadPc' = "test"
    /\ UNCHANGED <<notLoad, url, loadStates, target>>

TestEnds ==
    /\ loadPc = "test"
    /\ loadPc' = "done"
    /\ UNCHANGED <<notLoad, url, loadStates, target, returns>>

LoadNext ==
    \/ PageProgress
    \/ FixtureGoto
    \/ FixtureWaits
    \/ FixtureThrows
    \/ Use
    \/ TestGoto
    \/ TestClick
    \/ CallWaitForPageLoad
    \/ TestEnds

LoadSpec == LoadInit /\ [][LoadNext]_vars

\* C18: whenever a call of waitForPageLoad() made right after
\* 'await page.goto(X)' has returned, the page was X and had reached the
\* load, DOMContentLoaded and networkidle states.
C18_LoadedOnReturn ==
    \A k \in DOMAIN returns :
        returns[k].via = "goto" =>
            /\ returns[k].url = returns[k].target
            /\ returns[k].states = AllLoadStates

(***************************************************************************)
(* The CSV helpers of lib/helper-functions.ts.  A string is a sequence of  *)
(* one-character strings.  parseCsvLine, parseCsvContent and               *)
(* assertCsvColumns are pure: each is an operator that computes what the   *)
(* code computes, and one call is one step.                                *)
(***************************************************************************)

\* lengths of the lines and contents tried, and of the lists of expected columns
MaxLen == 5
MaxContentLen == 4
MaxColumns == 2

notCsv == <<flowVars, pairVars, hookVars, allureVars, loadVars, suiteVars, orderVars>>

Quote == "\""
Comma == ","
CsvWhitespace == {" ", "\t", "\r", "\n"}

LineAlphabet == {"a", " ", Comma, Quote}
ContentAlphabet == {"a", "b", " ", Comma, "\n", "\r"}

SeqsUpTo(alphabet, n) == UNION {[1 .. m -> alphabet] : m \in 0 .. n}

Lines == SeqsUpTo(LineAlphabet, MaxLen)
Contents == SeqsUpTo(ContentAlphabet, MaxContentLen)

\* names of columns: "a", "b" and the empty string
Columns == {<<"a">>, <<"b">>, << >>}
ColumnLists == SeqsUpTo(Columns, MaxColumns)

\* String.prototype.trim
Trim(str) ==
    LET inner == {k \in DOMAIN str : str[k] \notin CsvWhitespace}
    IN  IF inner = {} THEN << >>
        ELSE SubSeq(str, CHOOSE k \in inner : \A j \in inner : k <= j,
                         CHOOSE k \in inner : \A j \in inner : j <= k)

\* a scanner that knows no doubled quote
IsEscapedQuote_Never(str, k, inQuotes) == FALSE

\* inQuotes && line[i + 1] === '"'
IsEscapedQuote(str, k, inQuotes) ==
    inQuotes /\ k + 1 <= Len(str) /\ str[k + 1] = Quote

\* the for loop of parseCsvLine from index k on, and the final push
RECURSIVE Scan(_, _, _, _, _)
Scan(str, k, current, inQuotes, acc) ==
    IF k > Len(str) THEN Append(acc, current)
    ELSE IF str[k] = Quote
         THEN IF IsEscapedQuote(str, k, inQuotes)
              THEN Scan(str, k + 2, Append(current, Quote), inQuotes, acc)
              ELSE Scan(str, k + 1, current, ~inQuotes, acc)
         ELSE IF str[k] = Comma /\ ~inQuotes
              THEN Scan(str, k + 1, << >>, inQuotes, Append(acc, current))
              ELSE Scan(str, k + 1, Append(current, str[k]), inQuotes, acc)

parseCsvLine(str) ==
    LET scanned == Scan(str, 1, << >>, FALSE, << >>)
    IN  [k \in DOMAIN scanned |-> Trim(scanned[k])]

\* content.split(/\r?\n/) from index k on
RECURSIVE SplitLines(_, _, _, _)
SplitLines(str, k, current, acc) ==
    IF k > Len(str) THEN Append(acc, current)
    ELSE IF str[k] = "\n"
         THEN SplitLines(str, k + 1, << >>, Append(acc, current))
         ELSE IF str[k] = "\r" /\ k + 1 <= Len(str) /\ str[k + 1] = "\n"
              THEN SplitLines(str, k + 2, << >>, Append(acc, current))
              ELSE SplitLines(str, k + 1, Append(current, str[k]), acc)

parseCsvContent(str) ==
    LET split == SplitLines(str, 1, << >>, << >>)
        trimmed == [k \in DOMAIN split |-> Trim(split[k])]
        kept == SelectSeq(trimmed, LAMBDA l : Len(l) > 0)
    IN  [k \in DOMAIN kept |-> parseCsvLine(kept[k])]

\* Array.prototype.join(', ')
RECURSIVE Join(_)
Join(list) ==
    IF Len(list) = 0 THEN << >>
    ELSE IF Len(list) = 1 THEN list[1]
    ELSE list[1] \o <<",", " ">> \o Join(Tail(list))

\* Array.prototype.includes
Includes(list, x) == \E k \in DOMAIN list : list[k] = x

EmptyMessage == <<"CSV content is empty.">>
MissingPrefix == <<"Missing columns in CSV: ">>

Thrown(message) == [kind |-> "thrown", message |-> message]
Returned == [kind |-> "returned", message |-> << >>]

\* a check that looks for the columns in every row
assertCsvColumns_AnyRow(str, expected) ==
    LET rows == parseCsvContent(str)
    IN  IF Len(rows) = 0 THEN Thrown(EmptyMessage)
        ELSE LET missingColumns ==
                     SelectSeq(expected,
                               LAMBDA c : ~\E r \in DOMAIN rows : Includes(rows[r], c))
             IN  IF Len(missingColumns) > 0
                 THEN Thrown(MissingPrefix \o Join(missingColumns))
                 ELSE Returned

assertCsvColumns(str, expected) ==
    LET rows == parseCsvContent(str)
    IN  IF Len(rows) = 0 THEN Thrown(EmptyMessage)
        ELSE LET headerRow == rows[1]
                 missingColumns ==
                     SelectSeq(expected, LAMBDA c : ~Includes(headerRow, c))
             IN  IF Len(missingColumns) > 0
                 THEN Thrown(MissingPrefix \o Join(missingColumns))
                 ELSE Returned

CsvInit ==
    /\ FlowIdle
    /\ PairIdle
    /\ HookIdle
    /\ AllureIdle
    /\ LoadIdle
    /\ SuiteIdle
    /\ OrderIdle
    /\ values = << >>
    /\ outcome = [kind |-> "pending", message |-> << >>]
    /\ \/ /\ csvPc = "line"
          /\ line \in Lines
          /\ content = << >>
          /\ expectedColumns = << >>
       \/ /\ csvPc = "content"
          /\ line = << >>
          /\ content \in Contents
          /\ expectedColumns \in ColumnLists

\* const values = parseCsvLine(line)
ParseLine ==
    /\ csvPc = "line"
    /\ values' = parseCsvLine(line)
    /\ csvPc' = "parsed"
    /\ UNCHANGED <<notCsv, line, content, expectedColumns, outcome>>

\* assertCsvColumns(content, expectedColumns)
AssertColumns ==
    /\ csvPc = "content"
    /\ outcome' = assertCsvColumns(content, expectedColumns)
    /\ csvPc' = "asserted"
    /\ UNCHANGED <<notCsv, line, content, expectedColumns, values>>

CsvNext ==
    \/ ParseLine
    \/ AssertColumns

CsvSpec == CsvInit /\ [][CsvNext]_vars

Count(c, str) == Cardinality({k \in DOMAIN str : str[k] = c})

RECURSIVE Concat(_)
Concat(list) == IF Len(list) = 0 THEN << >> ELSE list[1] \o Concat(Tail(list))

QuotesBefore(str, k) == Cardinality({j \in 1 .. k - 1 : str[j] = Quote})

\* a comma is outside quotes when an even number of quote characters precede it
CommasOutsideQuotes(str) ==
    {k \in DOMAIN str : str[k] = Comma /\ QuotesBefore(str, k) % 2 = 0}

\* the second quote character of each doubled quote inside a quoted section
DoubledQuotes(str) ==
    {k \in 2 .. Len(str) :
        str[k] = Quote /\ str[k - 1] = Quote /\ QuotesBefore(str, k) % 2 = 0}

\* C19: for every line, parseCsvLine returns one field more than there are
\* commas outside quotes; the values hold one quote character per doubled
\* quote of a quoted section and no other quote character; the commas
\* inside quotes and all other characters are kept; and no value starts or
\* ends with whitespace.
C19_QuotedValues ==
    csvPc = "parsed" =>
        /\ Len(values) = 1 + Cardinality(CommasOutsideQuotes(line))
        /\ Count(Quote, Concat(values)) = Cardinality(DoubledQuotes(line))
        /\ Count(Comma, Concat(values))
              = Count(Comma, line) - Cardinality(CommasOutsideQuotes(line))
        /\ Count("a", Concat(values)) = Count("a", line)
        /\ \A k \in DOMAIN values :
              \/ values[k] = << >>
              \/ /\ values[k][1] \notin CsvWhitespace
                 /\ values[k][Len(values[k])] \notin CsvWhitespace

C19_Witness ==
    /\ csvPc = "parsed"
    /\ line = <<Quote, Comma, Quote, Quote, Comma>>
    /\ values = << <<Comma, Quote, Comma>> >>

NoNonBlankLine(str) == \A k \in DOMAIN str : str[k] \in CsvWhitespace

\* the line that holds the first character of str that is not whitespace
FirstNonBlankLine(str) ==
    LET first == CHOOSE k \in DOMAIN str :
                     /\ str[k] \notin CsvWhitespace
                     /\ \A j \in 1 .. k - 1 : str[j] \in CsvWhitespace
        before == {j \in 1 .. first : str[j] = "\n"}
        after == {j \in first .. Len(str) : str[j] = "\n"}
        from == IF before = {} THEN 1
                ELSE 1 + CHOOSE j \in before : \A h \in before : h <= j
        to == IF after = {} THEN Len(str)
              ELSE (CHOOSE j \in after : \A h \in after : j <= h) - 1
    IN  SubSeq(str, from, to)

Header == parseCsvLine(FirstNonBlankLine(content))

MissingFromHeader ==
    SelectSeq(expectedColumns, LAMBDA c : \A k \in DOMAIN Header : Header[k] # c)

\* C20: assertCsvColumns throws "CSV content is empty." exactly when the
\* content has no non-blank line; otherwise it throws "Missing columns in
\* CSV: " followed by the expected columns that are not in the parsed first
\* non-blank line, in the order given and joined by ", ", and returns
\* exactly when there is none; the outcome is the one the first non-blank
\* line alone would give.
C20_HeaderDecides ==
    csvPc = "asserted" =>
        /\ outcome = Thrown(EmptyMessage) <=> NoNonBlankLine(content)
        /\ ~NoNonBlankLine(content) =>
              /\ outcome.kind = "returned" <=> MissingFromHeader = << >>
              /\ outcome.kind = "thrown" <=> MissingFromHeader # << >>
              /\ outcome.kind = "thrown" =>
                    outcome.message
                       = <<"Missing columns in CSV: ">> \o Join(MissingFromHeader)
              /\ outcome = assertCsvColumns(FirstNonBlankLine(content), expectedColumns)

C20_Witness ==
    /\ csvPc = "asserted"
    /\ content = <<"\n", "b", "\n", "a">>
    /\ expectedColumns = << <<"a">>, <<"b">> >>
    /\ outcome = Thrown(<<"Missing columns in CSV: ", "a">>)

(***************************************************************************)
(* One test of the order suites (tests/shipedge-orders.spec.ts, the E2E    *)
(* flow of tests/example-dashboard.spec.ts): beforeEach logs in with the   *)
(* credentials of the environment and waits for the login to succeed       *)
(* (page-objects/shipedge-login-page.ts), the popup is handled, the order  *)
(* flow runs and waitForOrderCreated looks at its result                   *)
(* (page-objects/shipedge-orders-page.ts).  The application redirects and  *)
(* shows or hides the popup and the success message at any moment.         *)
(***************************************************************************)

notSuite == <<flowVars, pairVars, hookVars, allureVars, loadVars, csvVars, orderVars>>

BlankUrl == [path |-> "about:blank", query |-> ""]
LoginUrl == [path |-> "/login.php", query |-> ""]

\* the pages the application shows
Urls ==
    { LoginUrl,
      [path |-> "/login.php", query |-> "error=1"],
      [path |-> "/index.php", query |-> ""],
      [path |-> "/orders/add.php", query |-> "typeorder=regular"],
      [path |-> "/orders/edit.php", query |-> "id=7"] }

\* url.includes(part), for a part that is a whole path or a whole query
UrlIncludes(u, part) == u.path = part \/ u.query = part

\* what .env gives a variable: nothing, an empty string or a value
EnvValues == {Undefined, Str(""), Str("secret")}

EnvMessage == "TEST_USER_EMAIL and TEST_USER_PASSWORD must be set in .env"

SuiteInit ==
    /\ FlowIdle
    /\ PairIdle
    /\ HookIdle
    /\ AllureIdle
    /\ LoadIdle
    /\ CsvIdle
    /\ OrderIdle
    /\ suitePc = "goto"
    /\ envEmail \in EnvValues
    /\ envPassword \in EnvValues
    /\ currentUrl = BlankUrl
    /\ remindButton = FALSE
    /\ successMessage = "absent"
    /\ hasMessage = FALSE
    /\ suiteError = NoError
    /\ suiteFailedAt = "none"
    /\ loginCalls = 0
    /\ typed = <<>>
    /\ observedUrl = BlankUrl
    /\ urlAtReturn = BlankUrl
    /\ popupSteps = <<>>
    /\ createdSteps = <<>>

suiteEnv == <<envEmail, envPassword>>
suitePage == <<currentUrl, remindButton, successMessage>>
suiteFailure == <<suiteError, suiteFailedAt>>
loginHistory == <<loginCalls, typed, observedUrl, urlAtReturn>>
laterHistory == <<hasMessage, popupSteps, createdSteps>>

SuiteGoto(next) == suitePc' = next

SuiteThrow(err) ==
    /\ suiteError' = err
    /\ suiteFailedAt' = suitePc
    /\ suitePc' = "failed"

SuiteRunning == suitePc \notin {"idle", "failed", "done"}

\* the application goes to another page
Redirect ==
    /\ SuiteRunning
    /\ suitePc # "goto"
    /\ currentUrl' \in Urls \ {currentUrl}
    /\ UNCHANGED <<notSuite, suitePc, suiteEnv, remindButton, successMessage,
                   suiteFailure, loginHistory, laterHistory>>

\* navigateToLogin: await this.page.goto('/login.php')
NavigateToLogin ==
    /\ suitePc = "goto"
    /\ currentUrl' = LoginUrl
    /\ SuiteGoto("loginIdle")
    /\ UNCHANGED <<notSuite, suiteEnv, remindButton, successMessage,
                   suiteFailure, loginHistory, laterHistory>>

\* navigateToLogin: await this.page.waitForLoadState('networkidle')
LoginPageIdle ==
    /\ suitePc = "loginIdle"
    /\ SuiteGoto("envCheck")
    /\ UNCHANGED <<notSuite, suiteEnv, suitePage, suiteFailure, loginHistory, laterHistory>>

\* if (!email || !password) throw new Error(...)
CheckEnvThrows ==
    /\ suitePc = "envCheck"
    /\ ~Truthy(envEmail) \/ ~Truthy(envPassword)
    /\ SuiteThrow(EnvMessage)
    /\ UNCHANGED <<notSuite, suiteEnv, suitePage, loginHistory, laterHistory>>

\* a hook that calls login whatever the environment holds
CallLogin_Unchecked ==
    /\ suitePc = "envCheck"
    /\ loginCalls' = loginCalls + 1
    /\ SuiteGoto("enterEmail")
    /\ UNCHANGED <<notSuite, suiteEnv, suitePage, suiteFailure, typed, observedUrl,
                   urlAtReturn, laterHistory>>

\* await shipedgeLoginPage.login(email, password)
CallLogin ==
    /\ suitePc = "envCheck"
    /\ Truthy(envEmail) /\ Truthy(envPassword)
    /\ loginCalls' = loginCalls + 1
    /\ SuiteGoto("enterEmail")
    /\ UNCHANGED <<notSuite, suiteEnv, suitePage, suiteFailure, typed, observedUrl,
                   urlAtReturn, laterHistory>>

\* login: await this.enterEmail(email)
EnterEmail ==
    /\ suitePc = "enterEmail"
    /\ typed' = Append(typed, "email")
    /\ SuiteGoto("enterPassword")
    /\ UNCHANGED <<notSuite, suiteEnv, suitePage, suiteFailure, loginCalls, observedUrl,
                   urlAtReturn, laterHistory>>

\* login: await this.enterPassword(password)
EnterPassword ==
    /\ suitePc = "enterPassword"
    /\ typed' = Append(typed, "password")
    /\ SuiteGoto("clickLogin")
    /\ UNCHANGED <<notSuite, suiteEnv, suitePage, suiteFailure, loginCalls, observedUrl,
                   urlAtReturn, laterHistory>>

\* login: await this.clickLogin()
ClickLogin ==
    /\ suitePc = "clickLogin"
    /\ SuiteGoto("waitForURL")
    /\ UNCHANGED <<notSuite, suiteEnv, suitePage, suiteFailure, loginHistory, laterHistory>>

\* a wait that resolves on any URL
WaitForURL_AnyUrl ==
    /\ suitePc = "waitForURL"
    /\ observedUrl' = currentUrl
    /\ SuiteGoto("waitIdle")
    /\ UNCHANGED <<notSuite, suiteEnv, suitePage, suiteFailure, loginCalls, typed,
                   urlAtReturn, laterHistory>>

\* waitForSuccessfulLogin: await this.page.waitForURL(
\*     (url) => !url.toString().includes('/login.php'), ...) resolves
WaitForURL ==
    /\ suitePc = "waitForURL"
    /\ ~UrlIncludes(currentUrl, "/login.php")
    /\ observedUrl' = currentUrl
    /\ SuiteGoto("waitIdle")
    /\ UNCHANGED <<notSuite, suiteEnv, suitePage, suiteFailure, loginCalls, typed,
                   urlAtReturn, laterHistory>>

\* the 30000 ms of waitForURL pass on the login page
WaitForURLTimeout ==
    /\ suitePc = "waitForURL"
    /\ UrlIncludes(currentUrl, "/login.php")
    /\ SuiteThrow(TimeoutError)
    /\ UNCHANGED <<notSuite, suiteEnv, suitePage, loginHistory, laterHistory>>

\* waitForSuccessfulLogin: await this.page.waitForLoadState('networkidle'),
\* then the method returns
LoginIdle ==
    /\ suitePc = "waitIdle"
    /\ urlAtReturn' = currentUrl
    /\ SuiteGoto("popup")
    /\ UNCHANGED <<notSuite, suiteEnv, suitePage, suiteFailure, loginCalls, typed,
                   observedUrl, laterHistory>>

BeforeEachSteps ==
    {"goto", "loginIdle", "enterEmail", "enterPassword", "clickLogin", "waitIdle"}

\* page.goto, waitForLoadState, type or click rejects
BeforeEachStepThrows ==
    /\ suitePc \in BeforeEachSteps
    /\ SuiteThrow("StepError")
    /\ UNCHANGED <<notSuite, suiteEnv, suitePage, loginHistory, laterHistory>>

\* the application shows or hides the Remind Me Later popup
PopupChanges ==
    /\ SuiteRunning
    /\ remindButton' = ~remindButton
    /\ UNCHANGED <<notSuite, suitePc, suiteEnv, currentUrl, successMessage,
                   suiteFailure, loginHistory, laterHistory>>

\* the application adds, shows, hides or removes the success message
MessageChanges ==
    /\ suitePc \in {"flow", "created", "isVisible", "innerText"}
    /\ successMessage' \in {"absent", "hidden", "visible"} \ {successMessage}
    /\ UNCHANGED <<notSuite, suitePc, suiteEnv, currentUrl, remindButton,
                   suiteFailure, loginHistory, laterHistory>>

PopupStep(next, did) ==
    /\ SuiteGoto(next)
    /\ popupSteps' = popupSteps \o did
    /\ UNCHANGED <<notSuite, suiteEnv, suitePage, suiteFailure, loginHistory,
                   hasMessage, createdSteps>>

\* the method returns: what the page shows at that moment
PopupReturns == <<IF remindButton THEN "returnedVisible" ELSE "returnedHidden">>

\* await remindButton.waitFor({ state: 'visible', timeout: 10000 }) resolves
PopupSeen ==
    /\ suitePc = "popup"
    /\ remindButton
    /\ PopupStep("popupClick", <<"seen">>)

\* await remindButton.click() resolves
PopupClick ==
    /\ suitePc = "popupClick"
    /\ remindButton
    /\ PopupStep("popupHidden", <<"clicked">>)

\* await remindButton.waitFor({ state: 'hidden', timeout: 5000 }) resolves
PopupHidden ==
    /\ suitePc = "popupHidden"
    /\ ~remindButton
    /\ PopupStep("popupSettle", <<"hidden">>)

\* await this.page.waitForTimeout(1000), then the method returns
PopupSettle ==
    /\ suitePc = "popupSettle"
    /\ PopupStep("flow", PopupReturns)

\* a wait times out or the click rejects: catch (e) { console.log(...) },
\* then the method returns
PopupCaught ==
    /\ \/ suitePc = "popup" /\ ~remindButton
       \/ suitePc = "popupClick"
       \/ suitePc = "popupHidden" /\ remindButton
    /\ PopupStep("flow", <<"caught">> \o PopupReturns)

\* await shipedgeOrdersPage.startCreateOrderFlow() resolves
RunFlow ==
    /\ suitePc = "flow"
    /\ SuiteGoto("created")
    /\ UNCHANGED <<notSuite, suiteEnv, suitePage, suiteFailure, loginHistory, laterHistory>>

\* startCreateOrderFlow rejects
RunFlowThrows ==
    /\ suitePc = "flow"
    /\ SuiteThrow("FlowError")
    /\ UNCHANGED <<notSuite, suiteEnv, suitePage, loginHistory, laterHistory>>

CreatedStep(next, did) ==
    /\ SuiteGoto(next)
    /\ createdSteps' = createdSteps \o did
    /\ UNCHANGED <<notSuite, suiteEnv, suitePage, suiteFailure, loginHistory, popupSteps>>

\* waitForOrderCreated: await this.page.waitForURL(
\*     url => !url.href.includes('typeorder=regular'), { timeout }) resolves
CreatedRedirect ==
    /\ suitePc = "created"
    /\ ~UrlIncludes(currentUrl, "typeorder=regular")
    /\ hasMessage' = hasMessage
    /\ CreatedStep("isVisible", <<"redirect">>)

\* the wait times out: catch (e) { console.log(...) }
CreatedNoRedirect ==
    /\ suitePc = "created"
    /\ UrlIncludes(currentUrl, "typeorder=regular")
    /\ hasMessage' = hasMessage
    /\ CreatedStep("isVisible", <<"noRedirect">>)

\* const hasMessage = await this.successMessage.isVisible(...).catch(() => false)
CreatedProbe ==
    /\ suitePc = "isVisible"
    /\ \/ hasMessage' = (successMessage = "visible")
       \/ hasMessage' = FALSE
    /\ IF hasMessage'
       THEN CreatedStep("innerText", <<"visible">>)
       ELSE CreatedStep("verify", <<"notVisible", "returned">>)

\* const text = await this.successMessage.innerText() resolves, the method returns
CreatedReadText ==
    /\ suitePc = "innerText"
    /\ successMessage # "absent"
    /\ hasMessage' = hasMessage
    /\ CreatedStep("verify", <<"text", "returned">>)

\* innerText() finds no element until its timeout and rejects: nothing catches
CreatedReadTextThrows ==
    /\ suitePc = "innerText"
    /\ successMessage = "absent"
    /\ SuiteThrow(TimeoutError)
    /\ UNCHANGED <<notSuite, suiteEnv, suitePage, loginHistory, laterHistory>>

\* await expect(page).not.toHaveURL(/typeorder=regular/) passes
VerifyUrl ==
    /\ suitePc = "verify"
    /\ ~UrlIncludes(currentUrl, "typeorder=regular")
    /\ SuiteGoto("done")
    /\ UNCHANGED <<notSuite, suiteEnv, suitePage, suiteFailure, loginHistory, laterHistory>>

\* the assertion fails
VerifyUrlThrows ==
    /\ suitePc = "verify"
    /\ UrlIncludes(currentUrl, "typeorder=regular")
    /\ SuiteThrow("AssertionError")
    /\ UNCHANGED <<notSuite, suiteEnv, suitePage, loginHistory, laterHistory>>

SuiteNext ==
    \/ Redirect
    \/ PopupChanges
    \/ MessageChanges
    \/ NavigateToLogin
    \/ LoginPageIdle
    \/ CheckEnvThrows
    \/ CallLogin
    \/ EnterEmail
    \/ EnterPassword
    \/ ClickLogin
    \/ WaitForURL
    \/ WaitForURLTimeout
    \/ LoginIdle
    \/ BeforeEachStepThrows
    \/ PopupSeen
    \/ PopupClick
    \/ PopupHidden
    \/ PopupSettle
    \/ PopupCaught
    \/ RunFlow
    \/ RunFlowThrows
    \/ CreatedRedirect
    \/ CreatedNoRedirect
    \/ CreatedProbe
    \/ CreatedReadText
    \/ CreatedReadTextThrows
    \/ VerifyUrl
    \/ VerifyUrlThrows

SuiteSpec == SuiteInit /\ [][SuiteNext]_vars

(***************************************************************************)
(* Properties of the suite                                                 *)
(***************************************************************************)

\* waitForSuccessfulLogin has returned normally
LoginReturned == urlAtReturn # BlankUrl

\* what isStillOnLoginPage() gives when called as waitForSuccessfulLogin returns
isStillOnLoginPage == UrlIncludes(urlAtReturn, "/login.php")

EnvUnset == ~Truthy(envEmail) \/ ~Truthy(envPassword)

BodySteps == {"flow", "created", "isVisible", "innerText", "verify"}

\* startCreateOrderFlow has been called
FlowRan ==
    \/ suitePc \in (BodySteps \ {"flow"}) \cup {"done"}
    \/ suiteFailedAt \in BodySteps

\* C25 as stated: with TEST_USER_EMAIL or TEST_USER_PASSWORD unset or empty,
\* beforeEach fails with the TEST_USER_EMAIL / TEST_USER_PASSWORD message,
\* login() is never called, nothing is typed and the test body never runs;
\* with both set, login is called exactly once before the test body.
C25_UnsetFailsWithMessage ==
    /\ EnvUnset /\ suitePc = "failed" => suiteError = EnvMessage
    /\ EnvUnset => loginCalls = 0 /\ typed = <<>> /\ ~FlowRan
    /\ ~EnvUnset /\ FlowRan => loginCalls = 1

\* C25, amended: beforeEach first navigates to the login page and only then
\* reads the environment.  With a variable unset or empty the hook never
\* gets past the if statement: login() is never called, nothing is typed, the body
\* never runs, and the hook fails with the message once navigation has
\* succeeded (a rejected navigation fails it with that step's own error).
\* The message is raised in no other case; when the body runs, both
\* variables are set and login was called exactly once, typing the email
\* and then the password.
C25_EnvGuardsLogin ==
    /\ EnvUnset => /\ loginCalls = 0 /\ typed = <<>> /\ ~FlowRan
                   /\ suitePc \in {"goto", "loginIdle", "envCheck", "failed"}
    /\ EnvUnset /\ suitePc = "failed" =>
           \/ suiteFailedAt = "envCheck" /\ suiteError = EnvMessage
           \/ suiteFailedAt \in {"goto", "loginIdle"} /\ suiteError # EnvMessage
    /\ suiteError = EnvMessage => EnvUnset /\ suiteFailedAt = "envCheck"
    /\ loginCalls <= 1
    /\ FlowRan => ~EnvUnset /\ loginCalls = 1 /\ typed = <<"email", "password">>

\* the hook has failed with the message, before any login
C25_Witness ==
    /\ EnvUnset
    /\ suiteError = EnvMessage
    /\ loginCalls = 0

PopupPcs == {"popup", "popupClick", "popupHidden", "popupSettle"}

\* handleRemindMeLaterPopup has returned
PopupReturned ==
    /\ popupSteps # <<>>
    /\ popupSteps[Len(popupSteps)] \in {"returnedVisible", "returnedHidden"}

Did(steps, what) == \E at \in DOMAIN steps : steps[at] = what

Times(steps, what) == Cardinality({at \in DOMAIN steps : steps[at] = what})

\* C26: handleRemindMeLaterPopup never raises; when the button was seen
\* within 10 s it is clicked exactly once and the method returns only after
\* the button was observed hidden, so the popup is not visible on return;
\* when the button was never seen, no click is made.
C26_DismissedOnReturn ==
    /\ suiteFailedAt \notin PopupPcs
    /\ PopupReturned /\ Did(popupSteps, "seen") =>
           /\ Times(popupSteps, "clicked") = 1
           /\ Did(popupSteps, "hidden")
           /\ popupSteps[Len(popupSteps)] = "returnedHidden"
    /\ ~Did(popupSteps, "seen") => ~Did(popupSteps, "clicked")

CreatedPcs == {"created", "isVisible", "innerText"}

\* C29: waitForOrderCreated returns normally in every case, redirect or not,
\* success message or not: it never raises; it reads the text of the
\* success message only when the message was observed visible.
C29_NeverRaises ==
    /\ suiteFailedAt \notin CreatedPcs
    /\ Did(createdSteps, "text") => Did(createdSteps, "visible")

(***************************************************************************)
(* The tail of startCreateOrderFlow                                        *)
(* (page-objects/shipedge-orders-page.ts, lines 261-392): the product      *)
(* loop over the rows of the product table, the shipping modal with the    *)
(* race between selectOption({ value: 'EM' }) and a 4 s timer, the         *)
(* fallback over the USPS options, Ok and Save Order.  The application     *)
(* adds options to #select-ship at any moment while the modal is open.     *)
(***************************************************************************)

notOrder == <<flowVars, pairVars, hookVars, allureVars, loadVars, csvVars, suiteVars>>

MaxRows == 2

\* texts of the Available Stock cell, character by character
StockTexts ==
    { <<"5">>,
      <<"0">>,
      <<"-", "3">>,
      <<"1", ",", "2", "0", "0">>,
      <<" ", "7", "\n">>,
      <<"n", "/", "a">>,
      << >> }

\* a stock cell: its text, or innerText() rejects
StockCells ==
    {[rejects |-> FALSE, text |-> t] : t \in StockTexts}
        \cup {[rejects |-> TRUE, text |-> << >>]}

\* a row of .table-products: the stock cell and whether it holds an Add button
ProductRows == [stock : StockCells, hasAdd : BOOLEAN]

DigitChars == <<"0", "1", "2", "3", "4", "5", "6", "7", "8", "9">>

IsDigit(c) == \E d \in DOMAIN DigitChars : DigitChars[d] = c

DigitValue(c) == (CHOOSE d \in DOMAIN DigitChars : DigitChars[d] = c) - 1

NaN == [nan |-> TRUE, value |-> 0]

\* the value of the digits of str from index k on, up to the first non-digit
RECURSIVE DigitPrefix(_, _, _)
DigitPrefix(str, k, acc) ==
    IF k > Len(str) \/ ~IsDigit(str[k]) THEN acc
    ELSE DigitPrefix(str, k + 1, 10 * acc + DigitValue(str[k]))

\* parseInt(str, 10) of a string without leading white space
parseInt(str) ==
    LET signed == str # << >> /\ str[1] \in {"-", "+"}
        first  == IF signed THEN 2 ELSE 1
        sign   == IF signed /\ str[1] = "-" THEN -1 ELSE 1
    IN  IF first > Len(str) \/ ~IsDigit(str[first]) THEN NaN
        ELSE [nan |-> FALSE, value |-> sign * DigitPrefix(str, first, 0)]

\* text.replace(/,/g, '')
RemoveCommas(str) == SelectSeq(str, LAMBDA c : c # ",")

\* const stockText = await availableStockCell.innerText().catch(() => '0');
\* const stockValue = parseInt(stockText.trim().replace(/,/g, ''), 10);
StockValue(row) ==
    LET stockText == IF row.stock.rejects THEN <<"0">> ELSE row.stock.text
    IN  parseInt(RemoveCommas(Trim(stockText)))

\* if (!isNaN(stockValue) && stockValue > 0)
InStock(row) == ~StockValue(row).nan /\ StockValue(row).value > 0

EM == <<"E", "M">>

\* the style attribute of an option, as its declarations (none: no attribute)
Styles ==
    { << >>,
      <<"display: none">>,
      <<"display:none">>,
      <<"color: red">>,
      <<"color: red", "display: none">> }

\* the options the application may put into #select-ship
ShipOptions ==
    { [carrier_id |-> "3", style |-> << >>,               value |-> EM],
      [carrier_id |-> "3", style |-> << >>,               value |-> <<"P", "M">>],
      [carrier_id |-> "3", style |-> <<"color: red">>,    value |-> <<"F", "C">>],
      [carrier_id |-> "3", style |-> <<"display: none">>, value |-> <<"G", "A">>],
      [carrier_id |-> "3", style |-> <<"display:none">>,  value |-> <<"L", "M">>],
      [carrier_id |-> "3", style |-> <<"color: red", "display: none">>,
                                                          value |-> <<"P", "S">>],
      [carrier_id |-> "3", style |-> << >>,               value |-> << >>],
      [carrier_id |-> "3", style |-> << >>,               value |-> <<" ">>],
      [carrier_id |-> "7", style |-> << >>,               value |-> <<"U", "G">>] }

\* style?.includes(text), for a text that is one declaration
StyleIncludes(style, text) == \E d \in DOMAIN style : style[d] = text

\* const isHidden = style?.includes('display: none') || style?.includes('display:none')
isHidden(option) ==
    \/ StyleIncludes(option.style, "display: none")
    \/ StyleIncludes(option.style, "display:none")

\* the values pushed to availableOptions out of option[carrier_id="3"]
availableOptions(opts) ==
    { o.value : o \in { x \in opts : /\ x.carrier_id = "3"
                                     /\ ~isHidden(x)
                                     /\ x.value # << >>
                                     /\ Trim(x.value) # << >> } }

NoMethodsMessage == "No available USPS shipping methods found"

OrderInit ==
    /\ FlowIdle
    /\ PairIdle
    /\ HookIdle
    /\ AllureIdle
    /\ LoadIdle
    /\ CsvIdle
    /\ SuiteIdle
    /\ orderPc = "countRows"
    /\ productRows \in SeqsUpTo(ProductRows, MaxRows)
    /\ rowIndex = 0
    /\ productAdded = FALSE
    /\ productClicks = << >>
    /\ rowsScanned = 0
    /\ shipOptions = {}
    /\ shipMethod = << >>
    /\ emPending = FALSE
    /\ optionsRead = {}
    /\ randomMethod = << >>
    /\ fallbackChose = FALSE
    /\ methodAtOk = << >>
    /\ okClicks = 0
    /\ saveClicks = 0
    /\ orderError = NoError
    /\ orderFailedAt = "none"

productVars == <<productRows, rowIndex, productAdded, productClicks, rowsScanned>>
shippingVars == <<shipOptions, shipMethod, emPending, optionsRead, randomMethod,
                  fallbackChose, methodAtOk, okClicks>>
orderFailure == <<orderError, orderFailedAt>>

OrderGoto(next) == orderPc' = next

OrderThrow(err) ==
    /\ orderError' = err
    /\ orderFailedAt' = orderPc
    /\ orderPc' = "failed"

\* the shipping modal is open and #select-ship can be acted on
ModalOpenPcs == {"selectEM", "readOptions", "selectFallback", "clickOk"}

\* the application adds an option to #select-ship
PopulateOption ==
    /\ orderPc \in {"carrier"} \cup ModalOpenPcs
    /\ \E o \in ShipOptions \ shipOptions : shipOptions' = shipOptions \cup {o}
    /\ UNCHANGED <<notOrder, orderPc, productVars, shipMethod, emPending, optionsRead,
                   randomMethod, fallbackChose, methodAtOk, okClicks, saveClicks,
                   orderFailure>>

\* const rowCount = await productRows.count(); for (let i = 0; i < rowCount; ...
CountRows ==
    /\ orderPc = "countRows"
    /\ rowIndex' = 1
    /\ OrderGoto(IF Len(productRows) >= 1 THEN "scanRow" ELSE "fallbackAdd")
    /\ UNCHANGED <<notOrder, productRows, productAdded, productClicks, rowsScanned,
                   shippingVars, saveClicks, orderFailure>>

\* a loop body that clicks Add in any row that has the button
ScanRow_IgnoresStock ==
    /\ orderPc = "scanRow"
    /\ rowsScanned' = rowIndex
    /\ IF productRows[rowIndex].hasAdd
       THEN OrderGoto("clickRowAdd") /\ rowIndex' = rowIndex
       ELSE /\ rowIndex' = rowIndex + 1
            /\ OrderGoto(IF rowIndex + 1 <= Len(productRows)
                         THEN "scanRow" ELSE "fallbackAdd")
    /\ UNCHANGED <<notOrder, productRows, productAdded, productClicks,
                   shippingVars, saveClicks, orderFailure>>

\* one turn of the loop up to the click: read the cells of row i, then
\* if (!isNaN(stockValue) && stockValue > 0) if (await addButton.count() > 0)
ScanRow ==
    /\ orderPc = "scanRow"
    /\ rowsScanned' = rowIndex
    /\ IF InStock(productRows[rowIndex]) /\ productRows[rowIndex].hasAdd
       THEN OrderGoto("clickRowAdd") /\ rowIndex' = rowIndex
       ELSE /\ rowIndex' = rowIndex + 1
            /\ OrderGoto(IF rowIndex + 1 <= Len(productRows)
                         THEN "scanRow" ELSE "fallbackAdd")
    /\ UNCHANGED <<notOrder, productRows, productAdded, productClicks,
                   shippingVars, saveClicks, orderFailure>>

\* await addButton.first().click(); productAdded = true; break;
ClickRowAdd ==
    /\ orderPc = "clickRowAdd"
    /\ productClicks' = Append(productClicks, rowIndex)
    /\ productAdded' = TRUE
    /\ OrderGoto("closeProduct")
    /\ UNCHANGED <<notOrder, productRows, rowIndex, rowsScanned,
                   shippingVars, saveClicks, orderFailure>>

\* if (!productAdded) await this.productModalAddButtons.first().click()
FallbackAdd ==
    /\ orderPc = "fallbackAdd"
    /\ ~productAdded
    /\ productClicks' = Append(productClicks, 0)
    /\ OrderGoto("closeProduct")
    /\ UNCHANGED <<notOrder, productRows, rowIndex, productAdded, rowsScanned,
                   shippingVars, saveClicks, orderFailure>>

\* the Close button is clicked and the product modal, with its table, goes
CloseProduct ==
    /\ orderPc = "closeProduct"
    /\ productRows' = << >>
    /\ OrderGoto("addShipping")
    /\ UNCHANGED <<notOrder, rowIndex, productAdded, productClicks, rowsScanned,
                   shippingVars, saveClicks, orderFailure>>

\* await this.click(this.addShippingInfoButton)
ClickAddShipping ==
    /\ orderPc = "addShipping"
    /\ OrderGoto("carrier")
    /\ UNCHANGED <<notOrder, productVars, shippingVars, saveClicks, orderFailure>>

\* carrierSelect.selectOption USPS, by label or by value; 800 ms;
\* #select-ship is visible
SelectCarrier ==
    /\ orderPc = "carrier"
    /\ OrderGoto("selectEM")
    /\ UNCHANGED <<notOrder, productVars, shippingVars, saveClicks, orderFailure>>

HasOption(opts, value) == \E o \in opts : o.value = value

\* selectEM resolves before the timer: await Promise.race(...) resolves
EmResolves ==
    /\ orderPc = "selectEM"
    /\ HasOption(shipOptions, EM)
    /\ shipMethod' = EM
    /\ OrderGoto("clickOk")
    /\ UNCHANGED <<notOrder, productVars, shipOptions, emPending, optionsRead,
                   randomMethod, fallbackChose, methodAtOk, okClicks, saveClicks,
                   orderFailure>>

\* selectEM rejects before the timer: the catch block runs
EmRejects ==
    /\ orderPc = "selectEM"
    /\ OrderGoto("readOptions")
    /\ UNCHANGED <<notOrder, productVars, shippingVars, saveClicks, orderFailure>>

\* the 4000 ms pass with no 'EM' option: the race rejects with 'EM timeout',
\* the catch block runs and selectEM is left waiting
EmTimeout ==
    /\ orderPc = "selectEM"
    /\ ~HasOption(shipOptions, EM)
    /\ emPending' = TRUE
    /\ OrderGoto("readOptions")
    /\ UNCHANGED <<notOrder, productVars, shipOptions, shipMethod, optionsRead,
                   randomMethod, fallbackChose, methodAtOk, okClicks, saveClicks,
                   orderFailure>>

\* the abandoned selectOption({ value: 'EM' }) finds its option and selects it
PendingEmSelects ==
    /\ emPending
    /\ orderPc \in ModalOpenPcs
    /\ HasOption(shipOptions, EM)
    /\ shipMethod' = EM
    /\ emPending' = FALSE
    /\ UNCHANGED <<notOrder, orderPc, productVars, shipOptions, optionsRead,
                   randomMethod, fallbackChose, methodAtOk, okClicks, saveClicks,
                   orderFailure>>

\* the abandoned selectOption gives up at its own timeout
PendingEmExpires ==
    /\ emPending
    /\ emPending' = FALSE
    /\ UNCHANGED <<notOrder, orderPc, productVars, shipOptions, shipMethod, optionsRead,
                   randomMethod, fallbackChose, methodAtOk, okClicks, saveClicks,
                   orderFailure>>

\* a fallback that takes any option of the carrier
ReadOptions_AnyUsps ==
    /\ orderPc = "readOptions"
    /\ optionsRead' = shipOptions
    /\ \E o \in shipOptions : o.carrier_id = "3" /\ randomMethod' = o.value
    /\ OrderGoto("selectFallback")
    /\ UNCHANGED <<notOrder, productVars, shipOptions, shipMethod, emPending,
                   fallbackChose, methodAtOk, okClicks, saveClicks, orderFailure>>

\* the catch block collects availableOptions and picks
\* availableOptions[Math.floor(Math.random() * availableOptions.length)]
ReadOptions ==
    /\ orderPc = "readOptions"
    /\ optionsRead' = shipOptions
    /\ randomMethod' \in availableOptions(shipOptions)
    /\ OrderGoto("selectFallback")
    /\ UNCHANGED <<notOrder, productVars, shipOptions, shipMethod, emPending,
                   fallbackChose, methodAtOk, okClicks, saveClicks, orderFailure>>

\* if (availableOptions.length === 0) throw new Error(...)
NoOptionsThrows ==
    /\ orderPc = "readOptions"
    /\ availableOptions(shipOptions) = {}
    /\ optionsRead' = shipOptions
    /\ OrderThrow(NoMethodsMessage)
    /\ UNCHANGED <<notOrder, productVars, shipOptions, shipMethod, emPending,
                   randomMethod, fallbackChose, methodAtOk, okClicks, saveClicks>>

\* await this.shipMethodSelect.selectOption({ value: randomMethod })
SelectFallback ==
    /\ orderPc = "selectFallback"
    /\ HasOption(shipOptions, randomMethod)
    /\ shipMethod' = randomMethod
    /\ fallbackChose' = TRUE
    /\ OrderGoto("clickOk")
    /\ UNCHANGED <<notOrder, productVars, shipOptions, emPending, optionsRead,
                   randomMethod, methodAtOk, okClicks, saveClicks, orderFailure>>

\* Ok is clicked, by the first locator or by the fallback one, and the
\* shipping modal closes
ClickOk ==
    /\ orderPc = "clickOk"
    /\ okClicks' = okClicks + 1
    /\ methodAtOk' = shipMethod
    /\ OrderGoto("save")
    /\ UNCHANGED <<notOrder, productVars, shipOptions, shipMethod, emPending,
                   optionsRead, randomMethod, fallbackChose, saveClicks, orderFailure>>

\* Save Order is visible and enabled: await this.click(this.saveOrderButton)
ClickSave ==
    /\ orderPc = "save"
    /\ saveClicks' = saveClicks + 1
    /\ OrderGoto("done")
    /\ UNCHANGED <<notOrder, productVars, shippingVars, orderFailure>>

\* the steps that wait for the page and can reject
OrderWaits ==
    {"clickRowAdd", "fallbackAdd", "closeProduct", "addShipping", "carrier",
     "selectFallback", "clickOk", "save"}

\* a click, a wait or a selectOption rejects
OrderStepThrows ==
    /\ orderPc \in OrderWaits
    /\ OrderThrow("StepError")
    /\ UNCHANGED <<notOrder, productVars, shippingVars, saveClicks>>

OrderNext ==
    \/ PopulateOption
    \/ CountRows
    \/ ScanRow
    \/ ClickRowAdd
    \/ FallbackAdd
    \/ CloseProduct
    \/ ClickAddShipping
    \/ SelectCarrier
    \/ EmResolves
    \/ EmRejects
    \/ EmTimeout
    \/ PendingEmSelects
    \/ PendingEmExpires
    \/ ReadOptions
    \/ NoOptionsThrows
    \/ SelectFallback
    \/ ClickOk
    \/ ClickSave
    \/ OrderStepThrows

OrderSpec == OrderInit /\ [][OrderNext]_vars

(***************************************************************************)
(* Properties of the tail of the flow                                      *)
(***************************************************************************)

\* the catch block of the EM race has read the options
FallbackRead ==
    \/ orderPc = "selectFallback"
    \/ fallbackChose
    \/ orderFailedAt \in {"readOptions", "selectFallback"}

\* the USPS options, among those read, that are not hidden by a
\* display-none declaration and have a non-empty value
Selectable(opts) ==
    { o \in opts : /\ o.carrier_id = "3"
                   /\ \A d \in DOMAIN o.style : o.style[d] \notin {"display: none", "display:none"}
                   /\ \E c \in DOMAIN o.value : o.value[c] \notin CsvWhitespace }

\* C22: when selecting 'EM' fails or does not complete within 4 s, the
\* method the fallback selects is the value of a USPS option (carrier_id 3)
\* that is not hidden by display none and has a non-empty value; when there
\* is no such option the flow fails with 'No available USPS shipping methods
\* found' and neither Ok nor Save Order is ever clicked.
C22_FallbackPicksAvailable ==
    /\ FallbackRead /\ Selectable(optionsRead) # {} =>
           /\ \E o \in Selectable(optionsRead) : o.value = randomMethod
           /\ orderError # NoMethodsMessage
    /\ FallbackRead /\ Selectable(optionsRead) = {} =>
           /\ orderPc = "failed"
           /\ orderError = NoMethodsMessage
           /\ orderFailedAt = "readOptions"
    /\ orderError = NoMethodsMessage => okClicks = 0 /\ saveClicks = 0
    /\ ~FallbackRead => randomMethod = << >> /\ ~fallbackChose

\* the fallback has selected a method although hidden and empty options
\* of the carrier were there to choose from
C22_Witness ==
    /\ fallbackChose
    /\ shipMethod = randomMethod
    /\ \E o \in optionsRead : o.carrier_id = "3" /\ isHidden(o)
    /\ \E o \in optionsRead : o.carrier_id = "3" /\ Trim(o.value) = << >>

\* the text, trimmed and without commas, starts (after an optional '+')
\* with a run of digits that are not all zeros
ReadsPositive(text) ==
    LET str   == RemoveCommas(Trim(text))
        first == IF str # << >> /\ str[1] = "+" THEN 2 ELSE 1
    IN  \E k \in first .. Len(str) :
            /\ \A j \in first .. k : IsDigit(str[j])
            /\ str[k] # "0"

\* row k of the table has readable positive stock and an Add button
Qualifies(k) ==
    /\ ~productRows[k].stock.rejects
    /\ ReadsPositive(productRows[k].stock.text)
    /\ productRows[k].hasAdd

FirstQualifying ==
    {k \in DOMAIN productRows : Qualifies(k) /\ \A j \in 1 .. k - 1 : ~Qualifies(j)}

\* C24: product selection adds exactly one product per run: the Add button
\* of the first row, in table order, whose Available Stock parses (commas
\* removed) to a number above 0 and which holds an Add button, with no row
\* scanned after it; when no row qualifies, the first Add button of the
\* modal; never two product Add buttons.
C24_OneProductFirstInStock ==
    /\ Len(productClicks) <= 1
    /\ orderPc \in {"countRows", "scanRow", "clickRowAdd", "fallbackAdd"} =>
           productClicks = << >>
    /\ orderPc \notin {"countRows", "scanRow", "clickRowAdd", "fallbackAdd", "failed"} =>
           Len(productClicks) = 1
    /\ orderPc = "closeProduct" =>
           IF FirstQualifying # {}
           THEN /\ productClicks[1] \in FirstQualifying
                /\ rowsScanned = productClicks[1]
                /\ productAdded
           ELSE /\ productClicks = <<0>>
                /\ rowsScanned = Len(productRows)
                /\ ~productAdded

\* the second row was taken: the first one has stock but no Add button,
\* the second one reads 1,200
C24_Witness ==
    /\ orderPc = "closeProduct"
    /\ productClicks = <<2>>
    /\ InStock(productRows[1])
    /\ productRows[2].stock.text = <<"1", ",", "2", "0", "0">>

\* C27: once the fallback has selected an available method m (after the
\* 4 s timer won the race), the value of the ship-method select stays m
\* until Ok is clicked and the order is saved: the abandoned EM selection
\* does not change it.
C27_FallbackChoiceStays ==
    fallbackChose =>
        /\ okClicks = 0 /\ orderPc = "clickOk" => shipMethod = randomMethod
        /\ okClicks > 0 => methodAtOk = randomMethod

(***************************************************************************)
(* Further properties of the order flow                                    *)
(***************************************************************************)

\* the waits that decide the outcome of waitForAddressBookToLoad
DecidingWaits == {"abModalWait", "abRows", "abAddButtons"}

\* C30: when the Processing indicator was observed visible and did not
\* become hidden within the timeout, the timeout error is swallowed and
\* waitForAddressBookToLoad goes on to the row wait and the Add-button wait;
\* the indicator alone never fails the method: it fails only at the
\* modal-visible wait, the row wait or the Add-button wait, with their
\* timeout error.
C30_StuckIndicatorIsSwallowed ==
    /\ indicator = "observedStuck" => ReachedStep \in AfterProbeSteps
    /\ pc = "abProcessingHidden" => indicator = "pending"
    /\ pc = "failed" /\ failedAt \in LoadSteps =>
           failedAt \in DecidingWaits /\ error = TimeoutError
    /\ pc = "failed" /\ indicator = "observedStuck" => failedAt # "abProcessingHidden"

\* the indicator stayed visible and the wait still returned normally
C30_Witness == indicator = "observedStuck" /\ pc = "clientAdd" /\ processingIndicator

\* the events of a run that saves the order, in the order of the doc comment
StepOrder ==
    <<"addOrderClick", "modalVisible", "clientAddClick", "closeClick", "modalHidden">>
        \o ProductEvents \o ShippingEvents \o SaveEvents

\* evs without the repetitions of an event it already holds
RECURSIVE FirstOccurrencesFrom(_, _, _)
FirstOccurrencesFrom(evs, k, acc) ==
    IF k > Len(evs) THEN acc
    ELSE FirstOccurrencesFrom(evs, k + 1,
             IF Did(acc, evs[k]) THEN acc ELSE Append(acc, evs[k]))

FirstOccurrences(evs) == FirstOccurrencesFrom(evs, 1, << >>)

IsPrefix(short, long) ==
    Len(short) <= Len(long) /\ short = SubSeq(long, 1, Len(short))

Before(evs, first, then) ==
    \A k \in DOMAIN evs : evs[k] = then => \E j \in 1 .. k - 1 : evs[j] = first

ArtifactKinds == [k \in 1 .. Len(Artifacts) |-> Artifacts[k].kind]

CaptureOrder == <<"screenshot", "src_code", "error_msg", "current_url">>

\* the artifacts of one call are a prefix of the four, a call with a failed
\* step is over and short of one artifact at least, and the error message
\* comes from testInfo.error when the test threw, else from the passed error
CaptureIsPrefix ==
    /\ IsPrefix(ArtifactKinds, CaptureOrder)
    /\ captureThrew => Len(Artifacts) < Len(CaptureOrder) /\ phase \notin CapturePhases
    /\ \A k \in 1 .. Len(Artifacts) :
          Artifacts[k].kind = "error_msg" =>
              /\ status \in {"failed", "timedOut"} =>
                     Artifacts[k].content = "Error: thrown by the test"
              /\ status = "passed" =>
                     Artifacts[k].content = "Error: Test failed with status: passed"

\* a step of captureTestFailure leads to its next step or to the end of the
\* hook, never to a failed hook; after a failed step nothing more is attached
CaptureStepReturns ==
    /\ phase \in CapturePhases \cup {"date"} =>
           /\ phase' \in CapturePhases \cup {"date", "teardown"}
           /\ status' = status
    /\ captureThrew /\ captureThrew' => Artifacts' = Artifacts

\* C28: captureTestFailure never raises to the afterEach hook: a failure of
\* a capture step is caught; the artifacts of one call form a prefix of
\* screenshot, page source, error message, current URL, with nothing
\* attached after a failed step; the error-message artifact is built from
\* testInfo.error when present and from the passed error otherwise.
C28_CaptureNeverRaises == []CaptureIsPrefix /\ [][CaptureStepReturns]_vars

\* the attachment of the URL failed after the error of the test was attached
C28_Witness ==
    /\ captureThrew
    /\ ArtifactKinds = <<"screenshot", "src_code", "error_msg">>
    /\ Artifacts[3].content = "Error: thrown by the test"
    /\ phase = "done"
====
